---- MODULE Spec2Model ----
(***************************************************************************)
(* Exam-prep: scoring, streak, submission and leaderboard logic of the     *)
(* Express server (server/routes/exams.js) and of the React client         *)
(* (App, ExamInterface, Timer, ExamResults, SharedExam, WeakAreaDrill).    *)
(*                                                                         *)
(* The module holds several state machines, one per concern, each with its *)
(* own specification; the variables of the machines a specification does   *)
(* not drive stay at their idle values.                                    *)
(*   SpecPct    percentage arithmetic of POST /submit and of ExamResults   *)
(*   SpecScore  per-question scoring of ExamResults                        *)
(*   Spec       POST /submit: result write, streak update, interleavings   *)
(*   SpecBoard  shared-exam leaderboard: score submission and view         *)
(*   SpecExam   one attempt in the exam interface, with its countdown      *)
(*   SpecApp    the client application: routes, hosts of attempts, results *)
(*   SpecWeak   the weak-area analysis over a user's stored answers        *)
(*   SpecParse  parseQuestions over a pasted array of records              *)
(*   SpecSave   the save state of one mount of the results screen          *)
(*   SpecTrend  the score trend of the dashboard over GET /history         *)
(*   SpecAccess the routes of /api/exams called with and without a token   *)
(*   SpecDash   the streak on the dashboard: POST /submit, GET /auth/me    *)
(***************************************************************************)
EXTENDS Integers, Sequences, FiniteSets, TLC

VARIABLES
  \* ---- percentage machine
  pcScore,      \* number of correct answers of the attempt
  pcTotal,      \* number of questions of the attempt
  pcServer,     \* percentage stored by POST /submit, in hundredths (Unset before)
  pcClient,     \* percentage ExamResults computes, in hundredths (Unset before)
  \* ---- scoring machine
  scExam,       \* exam.questions: sequence of [id, correctAnswers]
  scAnswers,    \* userAnswers: sequence of [questionId, selectedAnswers]
  scResults,    \* results: sequence of [selectedAnswers, isCorrect]
  scScore,      \* score shown on the results screen (Unset before scoring)
  scPhase,      \* "build" while the inputs are drawn, "scored" afterwards
  scShared,     \* score SharedExam computes for the same answers (Unset before)
  \* ---- POST /submit machine (server)
  svNow,        \* the server's clock, in ticks
  svUser,       \* stored User document: currentStreak, longestStreak, lastExamDate
  svHistory,    \* stored user.examHistory, each entry with the instant of its updateStreak
  svResults,    \* stored ExamResult collection
  svReq,        \* the POST /submit requests: position, payload, local variables
  \* ---- shared-exam leaderboard machine (server)
  lbStore,      \* stored SavedExam.leaderboard of the public exam
  lbStatus,     \* HTTP status of the last answered leaderboard request (0: none)
  lbResp,       \* leaderboard array of that response
  lbReq,        \* the last request: method, shareId, nickname, score, saved
  lbLog,        \* entries of the submissions answered 201, in their order
  \* ---- exam interface machine (client: ExamInterface + Timer)
  eiTimeLimit,  \* exam.timeLimit in seconds, 0 when the exam has none
  eiPhase,      \* "active", "submitted" (onSubmit called), "abandoned" (onQuit called)
  eiIndex,      \* currentIndex
  eiAnswers,    \* answers: question id -> selected options
  eiFlagged,    \* flagged: set of question ids
  eiTimes,      \* questionTimes: question id -> seconds
  eiShowSubmit, \* showSubmitConfirm
  eiShowQuit,   \* showQuitConfirm
  eiNow,        \* Date.now() since the mount, in ticks (startTimeRef is 0)
  eiQStart,     \* questionStartRef
  tmRemaining,  \* Timer timeRemaining
  tmArmed,      \* the Timer's interval exists
  tmElapsed,    \* ticks since the interval was created or last fired
  eiOut,        \* answersArr handed to onSubmit
  eiOutTime,    \* timeTaken handed to onSubmit
  eiOutAt,      \* instant of the onSubmit call
  eiBy,         \* who called handleSubmit: "manual", "timer" or "none"
  eiCalls,      \* onSubmit invocations of this attempt
  eiPending,    \* the host's update queued by the timer callback awaits its render
  eiHost,       \* the host of the interface (App): appState, currentExam, userAnswers
  \* ---- application machine (client: App and the components of its routes)
  apAuth,       \* isAuthenticated of the auth store
  apRoute,      \* route the router shows
  apNavs,       \* Navbar links followed so far
  apCrashed,    \* a render threw: React has removed the whole tree
  app,          \* App's state: appState, currentExam, userAnswers
  apAttempt,    \* attempt App's exam state belongs to, 0 before the first
  rtAttempt,    \* attempt hosted by the route's own component (shared, drill)
  suInput,      \* ExamSetup jsonInput
  suParsed,     \* ExamSetup parsedQuestions
  suError,      \* ExamSetup error
  uiAttempt,    \* attempt of the mounted ExamInterface, 0 when none is mounted
  uiAnswers,    \* answers state of the mounted ExamInterface
  erHasSaved,   \* hasSaved ref of the mounted ExamResults
  erView,       \* view of the mounted ExamResults
  shPhase,      \* SharedExam phase, "none" when not mounted
  shExam,       \* SharedExam exam
  shScore,      \* SharedExam score, by the attempt it was computed from
  drPhase,      \* WeakAreaDrill phase, "none" when not mounted
  drExam,       \* WeakAreaDrill exam
  drAnswers,    \* WeakAreaDrill userAnswers
  drError,      \* WeakAreaDrill error is set
  srvShared,    \* questions of the public SavedExam behind the shared link
  attempts,     \* per attempt: status, host, answered, scored, requests issued
  \* ---- weak-area machine (server: GET /weak-areas)
  waStored,     \* answers of the user's stored ExamResults, in storage order
  waAdded,      \* answers stored since the start
  waSeen,       \* the answers the last successful analysis read
  waResp,       \* weakAreas array of the last response
  waStatus,     \* HTTP status of the last response, 0 before the first
  \* ---- parser machine (client: parseQuestions)
  pqBatch,      \* the records of the pasted JSON array
  pqOut,         \* what parseQuestions did with them: returned or thrown
  \* ---- results-screen save machine (client: ExamResults, one mount)
  rsProps,      \* exam and userAnswers the screen was mounted with
  rsAuth,       \* isAuthenticated of the auth store
  rsState,      \* mounted, view, saving, saved, saveError, hasSaved.current
  rsRequest,    \* examAPI.submitExam promise: none, pending, resolved, rejected
  rsPosts,      \* POST /submit requests issued since the mount
  rsShown,       \* what the last render put on the screen
  \* ---- trend machine (server: GET /history; client: Dashboard chartItems)
  trStored,     \* the user's ExamResults in the order they were created
  trHistory,    \* Dashboard state history, as GET /history delivered it
  trChart,       \* chartItems of the last render
  \* ---- access machine (server: every route of /api/exams, by caller)
  acExams,      \* the SavedExam collection
  acResults,    \* the ExamResult collection
  acProfiles,   \* per user, the length of examHistory in the profile
  acLast,        \* the last request: caller, route, documents read, response
  \* ---- dashboard machine (client: Dashboard streak; server: GET /auth/me)
  dsNow,        \* server clock, in ticks
  dsUser,       \* stored streak fields of the user
  dsResp,       \* streak of the latest POST /submit response
  dsDash        \* the Dashboard: whether it is mounted and its streak state

pctVars == <<pcScore, pcTotal, pcServer, pcClient>>
scoreVars == <<scExam, scAnswers, scResults, scScore, scPhase, scShared>>
submitVars == <<svNow, svUser, svHistory, svResults, svReq>>
boardVars == <<lbStore, lbStatus, lbResp, lbReq, lbLog>>
hostVars == <<eiCalls, eiPending, eiHost>>
examVars == <<eiTimeLimit, eiPhase, eiIndex, eiAnswers, eiFlagged, eiTimes, eiShowSubmit,
              eiShowQuit, eiNow, eiQStart, tmRemaining, tmArmed, tmElapsed, eiOut,
              eiOutTime, eiOutAt, eiBy, eiCalls, eiPending, eiHost>>
appVars == <<apAuth, apRoute, apNavs, apCrashed, app, apAttempt, rtAttempt, suInput, suParsed,
             suError, uiAttempt, uiAnswers, erHasSaved, erView, shPhase, shExam, shScore,
             drPhase, drExam, drAnswers, drError, srvShared, attempts>>
weakVars == <<waStored, waAdded, waSeen, waResp, waStatus>>
parseVars == <<pqBatch, pqOut>>
saveVars == <<rsProps, rsAuth, rsState, rsRequest, rsPosts, rsShown>>
trendVars == <<trStored, trHistory, trChart>>
accessVars == <<acExams, acResults, acProfiles, acLast>>
dashVars == <<dsNow, dsUser, dsResp, dsDash>>
vars == <<pctVars, scoreVars, submitVars, boardVars, examVars, appVars, weakVars, parseVars, saveVars, trendVars, accessVars, dashVars>>

Unset == -2
\* the value of 0/0*100 in JavaScript
NaN == -1

----------------------------------------------------------------------------
(* Helpers over sequences, as Array.prototype methods compute them *)

Min(a, b) == IF a <= b THEN a ELSE b
Max(a, b) == IF a >= b THEN a ELSE b

\* arr.includes(x)
Includes(arr, x) == \E i \in 1..Len(arr) : arr[i] = x

\* arr.every(x => other.includes(x))
EveryIncluded(arr, other) == \A i \in 1..Len(arr) : Includes(other, arr[i])

\* the elements of a sequence as a set
Range(arr) == {arr[i] : i \in 1..Len(arr)}

\* arr.filter(x => x # v)
RECURSIVE Without(_, _)
Without(arr, v) ==
  IF arr = <<>> THEN <<>>
  ELSE IF Head(arr) = v THEN Without(Tail(arr), v)
       ELSE <<Head(arr)>> \o Without(Tail(arr), v)

\* all sequences over S of length 0..n
SeqsUpTo(S, n) == UNION {[1..k -> S] : k \in 0..n}

\* sequences without repeated elements
NoDup(arr) == \A i, j \in 1..Len(arr) : i # j => arr[i] # arr[j]

----------------------------------------------------------------------------
(* Percentage arithmetic.  Percentages are kept in hundredths:             *)
(* 33.33 is 3333, the integer 33 is 3300.                                  *)

\* largest total the percentage machine draws
MaxTotal == 500

\* The multiples of 1/unit nearest to num/den.  score/total*100 is computed
\* in IEEE doubles; off a tie the rounding error never changes the nearest
\* multiple, on an exact tie (x.xx5, x.5) the error of the division decides
\* which neighbour the double is closer to, so both neighbours are outcomes.
NearestMultiples(num, den, unit) ==
  LET lo == (num * unit) \div den
      r2 == 2 * ((num * unit) % den)
  IN  IF r2 < den THEN {lo}
      ELSE IF r2 > den THEN {lo + 1}
      ELSE {lo, lo + 1}

\* POST /submit: parseFloat(((score / total) * 100).toFixed(2))
ServerPercentage(score, total) ==
  IF total = 0 THEN {NaN}
  ELSE NearestMultiples(score * 100, total, 100)

\* ExamResults: total > 0 ? Math.round((score / total) * 100) : 0
ClientPercentage(score, total) ==
  IF total > 0
  THEN {100 * p : p \in NearestMultiples(score * 100, total, 1)}
  ELSE {0}

PctIdle ==
  /\ pcScore = 0
  /\ pcTotal = 0
  /\ pcServer = Unset
  /\ pcClient = Unset

PctInit ==
  /\ pcTotal \in 1..MaxTotal
  /\ pcScore \in 0..pcTotal
  /\ pcServer = Unset
  /\ pcClient = Unset

\* the server scores the submitted attempt and stores the percentage
PctServerStore ==
  /\ pcServer = Unset
  /\ pcServer' \in ServerPercentage(pcScore, pcTotal)
  /\ UNCHANGED <<pcScore, pcTotal, pcClient, scoreVars, submitVars, boardVars, examVars, appVars, weakVars, parseVars, saveVars, trendVars, accessVars, dashVars>>

\* the results screen renders the attempt
PctClientRender ==
  /\ pcClient = Unset
  /\ pcClient' \in ClientPercentage(pcScore, pcTotal)
  /\ UNCHANGED <<pcScore, pcTotal, pcServer, scoreVars, submitVars, boardVars, examVars, appVars, weakVars, parseVars, saveVars, trendVars, accessVars, dashVars>>

----------------------------------------------------------------------------
(* Scoring of the results screen (ExamResults).                            *)

\* number of distinct option strings of a question
NumOptions == 2
\* longest correctAnswers list the setup form is given
MaxAnsLen == 2
\* most questions of an exam in the scoring machine
MaxQuestions == 2

Options == 1..NumOptions

\* correctAnswers as parseQuestions passes them through: any non-empty list,
\* repeated entries included
CorrectLists == SeqsUpTo(Options, MaxAnsLen) \ {<<>>}

\* selections the exam interface produces: it only ever appends an option
\* that is not selected yet
SelectionLists == {s \in SeqsUpTo(Options, NumOptions) : NoDup(s)}

\* selected.length === correct.length && selected.every(a => correct.includes(a))
\*   && correct.every(a => selected.includes(a))
IsCorrect(selected, correct) ==
  /\ Len(selected) = Len(correct)
  /\ EveryIncluded(selected, correct)
  /\ EveryIncluded(correct, selected)

\* userAnswers.find(a => a.questionId === id)?.selectedAnswers ?? []
SelectedFor(answers, id) ==
  IF \E i \in 1..Len(answers) : answers[i].questionId = id
  THEN answers[CHOOSE i \in 1..Len(answers) :
                 /\ answers[i].questionId = id
                 /\ \A j \in 1..(i - 1) : answers[j].questionId # id].selectedAnswers
  ELSE <<>>

\* results = exam.questions.map(q => ({question, selectedAnswers, isCorrect}))
Results(exam, answers) ==
  [i \in 1..Len(exam) |->
     [selectedAnswers |-> SelectedFor(answers, exam[i].id),
      isCorrect |-> IsCorrect(SelectedFor(answers, exam[i].id), exam[i].correctAnswers)]]

\* results.filter(r => r.isCorrect).length
ResultsScore(results) == Cardinality({i \in 1..Len(results) : results[i].isCorrect})

ScoreIdle ==
  /\ scExam = <<>>
  /\ scAnswers = <<>>
  /\ scResults = <<>>
  /\ scScore = Unset
  /\ scPhase = "build"
  /\ scShared = Unset

\* ua.selectedAnswers.every(s => q.correctAnswers.includes(s)) alone
SharedCorrect_NoLength(selected, correct) == EveryIncluded(selected, correct)

\* ua.selectedAnswers.length === q.correctAnswers.length &&
\*   ua.selectedAnswers.every(s => q.correctAnswers.includes(s))
SharedCorrect(selected, correct) ==
  /\ Len(selected) = Len(correct)
  /\ EveryIncluded(selected, correct)

\* finalScore of SharedExam.handleExamSubmit: a question without an entry in
\* answers adds nothing
handleExamSubmit(exam, answers) ==
  Cardinality({i \in 1..Len(exam) :
                 /\ \E k \in 1..Len(answers) : answers[k].questionId = exam[i].id
                 /\ SharedCorrect(SelectedFor(answers, exam[i].id), exam[i].correctAnswers)})

\* a question is added to the exam together with the answer the user gave
ScAddQuestion ==
  /\ scPhase = "build"
  /\ Len(scExam) < MaxQuestions
  /\ \E c \in CorrectLists, s \in SelectionLists :
       /\ scExam' = Append(scExam, [id |-> Len(scExam) + 1, correctAnswers |-> c])
       /\ scAnswers' = Append(scAnswers, [questionId |-> Len(scExam) + 1,
                                           selectedAnswers |-> s])
  /\ UNCHANGED <<scResults, scScore, scPhase, scShared, pctVars, submitVars, boardVars, examVars, appVars, weakVars, parseVars, saveVars, trendVars, accessVars, dashVars>>

\* ExamResults renders: results and score are computed
ScRender ==
  /\ scPhase = "build"
  /\ Len(scExam) >= 1
  /\ scResults' = Results(scExam, scAnswers)
  /\ scScore' = ResultsScore(Results(scExam, scAnswers))
  /\ scPhase' = "scored"
  /\ UNCHANGED <<scExam, scAnswers, scShared, pctVars, submitVars, boardVars, examVars, appVars, weakVars, parseVars, saveVars, trendVars, accessVars, dashVars>>

\* the same exam taken from its share link: the interface hands the same
\* answers to SharedExam.handleExamSubmit
ScSharedSubmit ==
  /\ scPhase = "scored"
  /\ scShared = Unset
  /\ scShared' = handleExamSubmit(scExam, scAnswers)
  /\ UNCHANGED <<scExam, scAnswers, scResults, scScore, scPhase, pctVars, submitVars, boardVars, examVars, appVars, weakVars, parseVars, saveVars, trendVars, accessVars, dashVars>>


----------------------------------------------------------------------------
(* POST /submit (server/routes/exams.js).  Each request runs the handler   *)
(* once; the handler yields at every await, so the requests interleave at  *)
(* examResult.save(), User.findById() and user.save().                     *)

\* clock ticks per calendar day
TicksPerDay == 2
\* last instant of the server clock
MaxNow == 4
\* number of POST /submit requests
MaxReq == 3
\* number of distinct attempts the payloads come from
MaxAttempts == 2
\* most answers in a payload
MaxAnswers == 1

Reqs == 1..MaxReq
Attempts == 1..MaxAttempts

\* lastExamDate of a user who never submitted
NoDate == -1

\* answers of a payload, reduced to their isCorrect flags
AnswerLists == SeqsUpTo(BOOLEAN, MaxAnswers)

\* d.setHours(0, 0, 0, 0)
Midnight(t) == (t \div TicksPerDay) * TicksPerDay

\* updateStreak with the reset test off by one day (last <= yesterdayMidnight)
updateStreak_ResetOnYesterday(user, now) ==
  LET todayMidnight == Midnight(now)
      yesterdayMidnight == todayMidnight - TicksPerDay
      hasLast == user.lastExamDate # NoDate
      last == Midnight(user.lastExamDate)
      current == IF ~hasLast \/ last <= yesterdayMidnight THEN 1
                 ELSE user.currentStreak
  IN  [currentStreak |-> current,
       longestStreak |-> Max(user.longestStreak, current),
       lastExamDate |-> now]

\* updateStreak(user), run at the instant now
updateStreak(user, now) ==
  LET todayMidnight == Midnight(now)
      yesterdayMidnight == todayMidnight - TicksPerDay
      hasLast == user.lastExamDate # NoDate
      last == Midnight(user.lastExamDate)
      current == IF ~hasLast \/ last < yesterdayMidnight THEN 1
                 ELSE IF last = yesterdayMidnight THEN user.currentStreak + 1
                 ELSE user.currentStreak
  IN  [currentStreak |-> current,
       longestStreak |-> Max(user.longestStreak, current),
       lastExamDate |-> now]

\* answers.filter(a => a.isCorrect).length
AnswersScore(answers) == Cardinality({i \in 1..Len(answers) : answers[i]})

\* ExamResult.percentage is a Number path: the document is rejected when the
\* value does not cast to a number (NaN)
ResultSaveAccepts(percentage) == percentage # NaN

NoDoc == [currentStreak |-> 0, longestStreak |-> 0, lastExamDate |-> NoDate]

IdleReq == [pc |-> "idle", att |-> 0, loaded |-> NoDoc, doc |-> NoDoc,
            nowAt |-> 0, status |-> 0]

SubmitIdle ==
  /\ svNow = 0
  /\ svUser = NoDoc
  /\ svHistory = <<>>
  /\ svResults = <<>>
  /\ svReq = [r \in Reqs |-> IdleReq]

\* a freshly registered user: streak defaults 0, no lastExamDate, no history
SubmitInit == SubmitIdle

\* time passes
SvTick ==
  /\ svNow < MaxNow
  /\ svNow' = svNow + 1
  /\ UNCHANGED <<svUser, svHistory, svResults, svReq, pctVars, scoreVars, boardVars, examVars, appVars, weakVars, parseVars, saveVars, trendVars, accessVars, dashVars>>

\* attempts already submitted by some request
UsedAttempts == {svReq[q].att : q \in Reqs} \ {0}

\* The requests are indistinguishable, so they are numbered in the order in
\* which they arrive, and the attempts in the order of their first request.
Arrives(r, att) ==
  /\ svReq[r].pc = "idle"
  /\ \A q \in 1..(r - 1) : svReq[q].pc # "idle"
  /\ att <= Cardinality(UsedAttempts) + 1

\* the handler up to and including await examResult.save():
\* validation, scoring, and the write of the ExamResult
SubmitBegin(r) ==
  \E att \in Attempts, answers \in AnswerLists, valid \in BOOLEAN, saveOk \in BOOLEAN :
    /\ Arrives(r, att)
    /\ LET score == AnswersScore(answers)
           total == Len(answers)
       IN  \E percentage \in ServerPercentage(score, total) :
         IF ~valid
         THEN \* submitSchema.validate fails: 400
              /\ svReq' = [svReq EXCEPT ![r] = [IdleReq EXCEPT !.pc = "done", !.att = att,
                                                              !.status = 400]]
              /\ UNCHANGED svResults
         ELSE IF saveOk /\ ResultSaveAccepts(percentage)
         THEN /\ svResults' = Append(svResults, [sid |-> r, att |-> att, score |-> score,
                                                 total |-> total, percentage |-> percentage])
              /\ svReq' = [svReq EXCEPT ![r] = [IdleReq EXCEPT !.pc = "resultSaved",
                                                              !.att = att]]
         ELSE \* examResult.save() throws: catch, 500
              /\ svReq' = [svReq EXCEPT ![r] = [IdleReq EXCEPT !.pc = "done", !.att = att,
                                                              !.status = 500]]
              /\ UNCHANGED svResults
    /\ UNCHANGED <<svNow, svUser, svHistory, pctVars, scoreVars, boardVars, examVars, appVars, weakVars, parseVars, saveVars, trendVars, accessVars, dashVars>>

\* await User.findById(userId) resolves; the handler pushes the history
\* entry on the loaded document, runs updateStreak and calls user.save()
SubmitLoadUser(r) ==
  /\ svReq[r].pc = "resultSaved"
  /\ \E found \in BOOLEAN :
       IF found
       THEN svReq' = [svReq EXCEPT ![r].pc = "userSaving",
                                   ![r].loaded = svUser,
                                   ![r].nowAt = svNow,
                                   ![r].doc = updateStreak(svUser, svNow)]
       ELSE \* the query throws: catch, 500
            svReq' = [svReq EXCEPT ![r].pc = "done", ![r].status = 500]
  /\ UNCHANGED <<svNow, svUser, svHistory, svResults, pctVars, scoreVars, boardVars, examVars, appVars, weakVars, parseVars, saveVars, trendVars, accessVars, dashVars>>

\* await user.save() resolves: the pushed entry is appended to the stored
\* history and the modified streak paths are set; then 201 is sent
SubmitSaveUser(r) ==
  /\ svReq[r].pc = "userSaving"
  /\ \E saveOk \in BOOLEAN :
       IF saveOk
       THEN /\ svHistory' = Append(svHistory, [sid |-> r, att |-> svReq[r].att,
                                                at |-> svReq[r].nowAt])
            /\ svUser' = svReq[r].doc
            /\ svReq' = [svReq EXCEPT ![r] = [IdleReq EXCEPT !.pc = "done",
                                                              !.att = svReq[r].att,
                                                              !.status = 201]]
       ELSE /\ svReq' = [svReq EXCEPT ![r] = [IdleReq EXCEPT !.pc = "done",
                                                              !.att = svReq[r].att,
                                                              !.status = 500]]
            /\ UNCHANGED <<svHistory, svUser>>
  /\ UNCHANGED <<svNow, svResults, pctVars, scoreVars, boardVars, examVars, appVars, weakVars, parseVars, saveVars, trendVars, accessVars, dashVars>>

----------------------------------------------------------------------------
(* Shared-exam leaderboard: POST /shared/:shareId/score and                *)
(* GET /shared/:shareId/leaderboard (server/routes/exams.js).              *)

\* .slice(0, 20)
LeaderboardCap == 20
\* entries already on the board when the machine starts
LbSeedLen == 19
\* score submissions accepted after the start
MaxPosts == 3

\* percentage and timeTaken values the submissions carry
LbPercents == {80, 90}
LbTimes == {50, 60, 100}
\* maxLength={30} of the nickname input
MaxNickname == 30
\* nicknames, by their length; 0 is the empty or missing nickname, and a
\* request written by hand can carry more characters than the input allows
LbNicknames == {0, 1, MaxNickname + 1}
\* a score that is not of type number
NoNumber == -1
LbScores == {NoNumber, 1}
\* share ids of requests: the public exam's, and one no exam has
ShareIds == {"pub", "none"}

\* a board filled by earlier submissions
LbSeed ==
  [i \in 1..LbSeedLen |->
     [nickname |-> 1, score |-> 1,
      percentage |-> IF i % 2 = 0 THEN 80 ELSE 90,
      timeTaken |-> IF i % 3 = 0 THEN 50 ELSE IF i % 3 = 1 THEN 100 ELSE 60]]

\* the comparator without its tie-break
Compare_NoTieBreak(a, b) == b.percentage - a.percentage

\* (a, b) => b.percentage - a.percentage || a.timeTaken - b.timeTaken
Compare(a, b) ==
  IF b.percentage - a.percentage # 0
  THEN b.percentage - a.percentage
  ELSE a.timeTaken - b.timeTaken

\* one insertion of the stable sort: x goes behind every element that does
\* not compare greater than it
InsertSorted(sorted, x) ==
  LET k == Cardinality({i \in 1..Len(sorted) : Compare(sorted[i], x) <= 0})
  IN  SubSeq(sorted, 1, k) \o <<x>> \o SubSeq(sorted, k + 1, Len(sorted))

\* Array.prototype.sort(Compare): stable
RECURSIVE SortLeaderboard(_)
SortLeaderboard(arr) ==
  IF arr = <<>> THEN <<>>
  ELSE InsertSorted(SortLeaderboard(SubSeq(arr, 1, Len(arr) - 1)), arr[Len(arr)])

\* exam.leaderboard.sort(...).slice(0, 20)
Ranking(board) ==
  LET sorted == SortLeaderboard(board)
  IN  SubSeq(sorted, 1, Min(Len(sorted), LeaderboardCap))

\* shareId of the one public SavedExam
PublicShareId == "pub"

\* a lookup that finds the exam under any share id
FindShared_Any(shareId) == TRUE

\* SavedExam.findOne({ shareId, isPublic: true })
FindShared(shareId) == shareId = PublicShareId

NoRequest == [method |-> "none", shareId |-> "none", nickname |-> 0, score |-> NoNumber,
              saved |-> FALSE]

BoardIdle ==
  /\ lbStore = <<>>
  /\ lbStatus = 0
  /\ lbResp = <<>>
  /\ lbReq = NoRequest
  /\ lbLog = <<>>

BoardInit ==
  /\ lbStore \in {<<>>, LbSeed}
  /\ lbStatus = 0
  /\ lbResp = <<>>
  /\ lbReq = NoRequest
  /\ lbLog = <<>>

\* what exam.save() writes: the document as loaded and pushed, before the
\* handler sorts its array
StoredBySave_Ranked(doc) == Ranking(doc)

StoredBySave(doc) == doc

\* entries the machine has accepted since its start
LbPosted == IF Len(lbStore) >= LbSeedLen /\ SubSeq(lbStore, 1, LbSeedLen) = LbSeed
            THEN Len(lbStore) - LbSeedLen
            ELSE Len(lbStore)

\* POST /shared/:shareId/score; saveOk: exam.save() resolves (the store
\* completes the write and the pushed entry passes the schema's casts)
LbPostScore ==
  /\ LbPosted < MaxPosts
  /\ \E shareId \in ShareIds, nickname \in LbNicknames, score \in LbScores,
        percentage \in LbPercents, timeTaken \in LbTimes, saveOk \in BOOLEAN :
       /\ lbReq' = [method |-> "POST", shareId |-> shareId, nickname |-> nickname,
                    score |-> score, saved |-> saveOk]
       /\ IF nickname = 0 \/ score = NoNumber
          THEN /\ lbStatus' = 400
               /\ lbResp' = <<>>
               /\ UNCHANGED <<lbStore, lbLog>>
          ELSE IF ~FindShared(shareId)
          THEN /\ lbStatus' = 404
               /\ lbResp' = <<>>
               /\ UNCHANGED <<lbStore, lbLog>>
          ELSE IF ~saveOk
          THEN \* exam.save() throws: catch, 500
               /\ lbStatus' = 500
               /\ lbResp' = <<>>
               /\ UNCHANGED <<lbStore, lbLog>>
          ELSE LET entry == [nickname |-> nickname, score |-> score,
                             percentage |-> percentage, timeTaken |-> timeTaken]
                   pushed == Append(lbStore, entry)
               IN  /\ lbStore' = StoredBySave(pushed)
                   /\ lbLog' = Append(lbLog, entry)
                   /\ lbStatus' = 201
                   /\ lbResp' = Ranking(pushed)
  /\ UNCHANGED <<pctVars, scoreVars, submitVars, examVars, appVars, weakVars, parseVars, saveVars, trendVars, accessVars, dashVars>>

\* GET /shared/:shareId/leaderboard
LbGetLeaderboard ==
  /\ \E shareId \in ShareIds :
       /\ lbReq' = [NoRequest EXCEPT !.method = "GET", !.shareId = shareId]
       /\ IF ~FindShared(shareId)
          THEN /\ lbStatus' = 404
               /\ lbResp' = <<>>
          ELSE /\ lbStatus' = 200
               /\ lbResp' = Ranking(lbStore)
  /\ UNCHANGED <<lbStore, lbLog, pctVars, scoreVars, submitVars, examVars, appVars, weakVars, parseVars, saveVars, trendVars, accessVars, dashVars>>

----------------------------------------------------------------------------
(* App's exam state and its handlers (App.tsx).                            *)

\* parsedQuestions === null, exam === null, no SavedExam document
Null == -1

\* useState initial values of App
AppMounted == [appState |-> "setup", currentExam |-> Null, userAnswers |-> 0]

handleStartExam(a, exam) == [a EXCEPT !.currentExam = exam, !.appState = "taking"]

handleSubmitExam(a, answers) == [a EXCEPT !.userAnswers = answers, !.appState = "results"]

handleRetake(a) == [a EXCEPT !.userAnswers = 0, !.appState = "taking"]

handleNewExam(a) == [a EXCEPT !.currentExam = Null, !.userAnswers = 0, !.appState = "setup"]

handleQuit_ToResults(a) == [a EXCEPT !.userAnswers = 0, !.appState = "results"]

handleQuit(a) == [a EXCEPT !.currentExam = Null, !.userAnswers = 0, !.appState = "setup"]

----------------------------------------------------------------------------
(* The exam interface (ExamInterface.tsx) with its countdown (Timer.tsx).  *)
(* Time advances in ticks of 1/TicksPerSec second.  The exam has EiTotal   *)
(* questions; question 1 is single-select, the others multi-select.        *)

\* clock ticks per second
TicksPerSec == 2
\* time limit of the timed exam, in seconds
EiTimeLimit == 2
\* last instant of the client clock, in ticks
EiMaxNow == 6
\* number of questions of the exam
EiTotal == 2
\* options per question
EiOptions == 2

EiQuestions == 1..EiTotal
EiType(q) == IF q = 1 THEN "single" ELSE "multi"

NoAnswers == [q \in EiQuestions |-> <<>>]
NoTimes == [q \in EiQuestions |-> 0]

\* useState initial values of ExamInterface, refs set by the mount effect
EiMounted(limit) ==
  /\ eiTimeLimit = limit
  /\ eiPhase = "active"
  /\ eiIndex = 0
  /\ eiAnswers = NoAnswers
  /\ eiFlagged = {}
  /\ eiTimes = NoTimes
  /\ eiShowSubmit = FALSE
  /\ eiShowQuit = FALSE
  /\ eiNow = 0
  /\ eiQStart = 0
  /\ tmRemaining = limit
  /\ tmArmed = (limit > 0)
  /\ tmElapsed = 0
  /\ eiOut = <<>>
  /\ eiOutTime = 0
  /\ eiOutAt = 0
  /\ eiBy = "none"
  /\ eiCalls = 0
  /\ eiPending = FALSE
  /\ eiHost = handleStartExam(AppMounted, 1)

ExamIdle == EiMounted(0)

ExamInit == \E limit \in {0, EiTimeLimit} : EiMounted(limit)

\* Math.floor((Date.now() - since) / 1000)
SecondsSince(now, since) == (now - since) \div TicksPerSec

\* questionTimes after flushCurrentTime() at the instant now
FlushedTimes(now) ==
  LET elapsed == SecondsSince(now, eiQStart)
      q == eiIndex + 1
  IN  IF elapsed > 0 THEN [eiTimes EXCEPT ![q] = eiTimes[q] + elapsed] ELSE eiTimes

\* Timer's effect depends on onTimeUp = handleSubmit, a useCallback over
\* answers, questionTimes, flagged and (through flushCurrentTime) currentIndex:
\* when one of them is replaced the effect cleans up (clearInterval) and
\* creates a new 1000 ms interval
TimerEffect(changed) ==
  /\ tmElapsed' = IF changed THEN 0 ELSE tmElapsed
  /\ UNCHANGED <<tmRemaining, tmArmed>>

\* the host unmounts ExamInterface: its state is gone, the interval cleared
EiUnmounted ==
  /\ eiIndex' = 0
  /\ eiAnswers' = NoAnswers
  /\ eiFlagged' = {}
  /\ eiTimes' = NoTimes
  /\ eiShowSubmit' = FALSE
  /\ eiShowQuit' = FALSE
  /\ eiQStart' = 0
  /\ tmArmed' = FALSE
  /\ tmElapsed' = 0

\* handleSubmit() at the instant now: answersArr is built from the answers,
\* questionTimes and flagged of the last render and handed to onSubmit
HandleSubmit(now, by) ==
  /\ eiOut' = [q \in EiQuestions |->
                 [selectedAnswers |-> eiAnswers[q],
                  timeSpent |-> eiTimes[q],
                  flagged |-> q \in eiFlagged]]
  /\ eiOutTime' = SecondsSince(now, 0)
  /\ eiOutAt' = now
  /\ eiBy' = by
  /\ eiPhase' = "submitted"
  /\ eiCalls' = eiCalls + 1

\* React renders the host with the state its handlers queued; a host that
\* is no longer 'taking' removes the interface
HostRendered(host) ==
  /\ eiHost' = host
  /\ eiPending' = FALSE
  /\ EiUnmounted

EiCanAct == eiPhase = "active" /\ ~eiShowSubmit /\ ~eiShowQuit

\* an option is clicked, or its number key pressed
EiSelect ==
  /\ EiCanAct
  /\ \E opt \in 1..EiOptions :
       LET q == eiIndex + 1
           cur == eiAnswers[q]
           selected == IF EiType(q) = "single" THEN <<opt>>
                       ELSE IF Includes(cur, opt) THEN Without(cur, opt)
                            ELSE Append(cur, opt)
       IN  eiAnswers' = [eiAnswers EXCEPT ![q] = selected]
  /\ TimerEffect(TRUE)
  /\ UNCHANGED <<eiTimeLimit, eiPhase, eiIndex, eiFlagged, eiTimes, eiShowSubmit, eiShowQuit,
                 eiNow, eiQStart, eiOut, eiOutTime, eiOutAt, eiBy, hostVars>>
  /\ UNCHANGED <<pctVars, scoreVars, submitVars, boardVars, appVars, weakVars, parseVars, saveVars, trendVars, accessVars, dashVars>>

\* goTo(idx): flushCurrentTime(), setCurrentIndex(idx)
GoTo(idx) ==
  /\ eiTimes' = FlushedTimes(eiNow)
  /\ eiQStart' = eiNow
  /\ eiIndex' = idx
  /\ TimerEffect(FlushedTimes(eiNow) # eiTimes \/ idx # eiIndex)
  /\ UNCHANGED <<eiTimeLimit, eiPhase, eiAnswers, eiFlagged, eiShowSubmit, eiShowQuit, eiNow,
                 eiOut, eiOutTime, eiOutAt, eiBy, hostVars>>

\* a handleNext without its test
CanGoNext_Always(idx) == TRUE

\* if (currentIndex < total - 1)
CanGoNext(idx) == idx < EiTotal - 1

\* if (currentIndex > 0)
CanGoPrev(idx) == idx > 0

\* handleNext: Next button, ArrowRight/ArrowDown, Enter before the last question
EiNext ==
  /\ EiCanAct
  /\ IF CanGoNext(eiIndex) THEN GoTo(eiIndex + 1) ELSE UNCHANGED examVars
  /\ UNCHANGED <<pctVars, scoreVars, submitVars, boardVars, appVars, weakVars, parseVars, saveVars, trendVars, accessVars, dashVars>>

\* handlePrev: Previous button, ArrowLeft/ArrowUp
EiPrev ==
  /\ EiCanAct
  /\ IF CanGoPrev(eiIndex) THEN GoTo(eiIndex - 1) ELSE UNCHANGED examVars
  /\ UNCHANGED <<pctVars, scoreVars, submitVars, boardVars, appVars, weakVars, parseVars, saveVars, trendVars, accessVars, dashVars>>

\* a cell of the question grid is clicked
EiGridJump ==
  /\ EiCanAct
  /\ \E i \in 0..(EiTotal - 1) : GoTo(i)
  /\ UNCHANGED <<pctVars, scoreVars, submitVars, boardVars, appVars, weakVars, parseVars, saveVars, trendVars, accessVars, dashVars>>

\* toggleFlag(): flag button or F key
EiToggleFlag ==
  /\ EiCanAct
  /\ LET q == eiIndex + 1
     IN  eiFlagged' = IF q \in eiFlagged THEN eiFlagged \ {q} ELSE eiFlagged \cup {q}
  /\ TimerEffect(TRUE)
  /\ UNCHANGED <<eiTimeLimit, eiPhase, eiIndex, eiAnswers, eiTimes, eiShowSubmit, eiShowQuit,
                 eiNow, eiQStart, eiOut, eiOutTime, eiOutAt, eiBy, hostVars>>
  /\ UNCHANGED <<pctVars, scoreVars, submitVars, boardVars, appVars, weakVars, parseVars, saveVars, trendVars, accessVars, dashVars>>

\* Submit button of the last question, or Enter on it
EiOpenSubmit ==
  /\ EiCanAct
  /\ eiIndex = EiTotal - 1
  /\ eiShowSubmit' = TRUE
  /\ UNCHANGED <<eiTimeLimit, eiPhase, eiIndex, eiAnswers, eiFlagged, eiTimes, eiShowQuit, eiNow,
                 eiQStart, tmRemaining, tmArmed, tmElapsed, eiOut, eiOutTime, eiOutAt, eiBy, hostVars>>
  /\ UNCHANGED <<pctVars, scoreVars, submitVars, boardVars, appVars, weakVars, parseVars, saveVars, trendVars, accessVars, dashVars>>

\* "Keep reviewing"
EiCancelSubmit ==
  /\ eiPhase = "active"
  /\ eiShowSubmit
  /\ eiShowSubmit' = FALSE
  /\ UNCHANGED <<eiTimeLimit, eiPhase, eiIndex, eiAnswers, eiFlagged, eiTimes, eiShowQuit, eiNow,
                 eiQStart, tmRemaining, tmArmed, tmElapsed, eiOut, eiOutTime, eiOutAt, eiBy, hostVars>>
  /\ UNCHANGED <<pctVars, scoreVars, submitVars, boardVars, appVars, weakVars, parseVars, saveVars, trendVars, accessVars, dashVars>>

\* "Submit" of the confirmation: handleSubmit; React renders the host at the
\* end of the click.  The button is still there while the update of a
\* countdown expiry awaits its render
EiConfirmSubmit ==
  /\ eiPhase = "active" \/ eiPending
  /\ eiShowSubmit
  /\ HandleSubmit(eiNow, "manual")
  /\ HostRendered(handleSubmitExam(eiHost, eiOut'))
  /\ UNCHANGED <<eiTimeLimit, eiNow, tmRemaining>>
  /\ UNCHANGED <<pctVars, scoreVars, submitVars, boardVars, appVars, weakVars, parseVars, saveVars, trendVars, accessVars, dashVars>>

\* Quit button of the header
EiOpenQuit ==
  /\ EiCanAct
  /\ eiShowQuit' = TRUE
  /\ UNCHANGED <<eiTimeLimit, eiPhase, eiIndex, eiAnswers, eiFlagged, eiTimes, eiShowSubmit,
                 eiNow, eiQStart, tmRemaining, tmArmed, tmElapsed, eiOut, eiOutTime, eiOutAt,
                 eiBy, hostVars>>
  /\ UNCHANGED <<pctVars, scoreVars, submitVars, boardVars, appVars, weakVars, parseVars, saveVars, trendVars, accessVars, dashVars>>

\* "Cancel" of the quit confirmation
EiCancelQuit ==
  /\ eiPhase = "active"
  /\ eiShowQuit
  /\ eiShowQuit' = FALSE
  /\ UNCHANGED <<eiTimeLimit, eiPhase, eiIndex, eiAnswers, eiFlagged, eiTimes, eiShowSubmit,
                 eiNow, eiQStart, tmRemaining, tmArmed, tmElapsed, eiOut, eiOutTime, eiOutAt,
                 eiBy, hostVars>>
  /\ UNCHANGED <<pctVars, scoreVars, submitVars, boardVars, appVars, weakVars, parseVars, saveVars, trendVars, accessVars, dashVars>>

\* "Quit" of the quit confirmation: onQuit; React renders the host at the end
\* of the click, with the update of a countdown expiry, if one is queued,
\* applied before the one of handleQuit
EiConfirmQuit ==
  /\ eiPhase = "active" \/ eiPending
  /\ eiShowQuit
  /\ eiPhase' = "abandoned"
  /\ HostRendered(handleQuit(IF eiPending THEN handleSubmitExam(eiHost, eiOut) ELSE eiHost))
  /\ UNCHANGED <<eiTimeLimit, eiNow, tmRemaining, eiOut, eiOutTime, eiOutAt, eiBy, eiCalls>>
  /\ UNCHANGED <<pctVars, scoreVars, submitVars, boardVars, appVars, weakVars, parseVars, saveVars, trendVars, accessVars, dashVars>>

\* React renders the host after the countdown's onSubmit
EiHostRender ==
  /\ eiPending
  /\ HostRendered(handleSubmitExam(eiHost, eiOut))
  /\ UNCHANGED <<eiTimeLimit, eiPhase, eiNow, tmRemaining, eiOut, eiOutTime, eiOutAt, eiBy,
                 eiCalls>>
  /\ UNCHANGED <<pctVars, scoreVars, submitVars, boardVars, appVars, weakVars, parseVars, saveVars, trendVars, accessVars, dashVars>>

\* one tick of time passes; an interval that has run 1000 ms fires:
\* setTimeRemaining(prev => prev <= 1 ? (clearInterval, onTimeUp(), 0) : prev - 1).
\* The callback runs outside any React event: what onTimeUp makes the host
\* set is queued and rendered afterwards, the interface stays until then
EiTick ==
  /\ eiNow < EiMaxNow
  /\ ~eiPending
  /\ eiNow' = eiNow + 1
  /\ IF eiPhase = "active" /\ tmArmed /\ tmElapsed + 1 = TicksPerSec
     THEN IF tmRemaining <= 1
          THEN /\ tmRemaining' = 0
               /\ HandleSubmit(eiNow + 1, "timer")
               /\ eiQStart' = eiNow + 1
               /\ tmArmed' = FALSE
               /\ tmElapsed' = 0
               /\ eiPending' = TRUE
               /\ UNCHANGED <<eiTimeLimit, eiIndex, eiAnswers, eiFlagged, eiTimes,
                              eiShowSubmit, eiShowQuit, eiHost>>
          ELSE /\ tmRemaining' = tmRemaining - 1
               /\ tmElapsed' = 0
               /\ UNCHANGED <<eiTimeLimit, eiPhase, eiIndex, eiAnswers, eiFlagged, eiTimes,
                              eiShowSubmit, eiShowQuit, eiQStart, tmArmed, eiOut, eiOutTime,
                              eiOutAt, eiBy, hostVars>>
     ELSE /\ tmElapsed' = IF eiPhase = "active" /\ tmArmed THEN tmElapsed + 1 ELSE tmElapsed
          /\ UNCHANGED <<eiTimeLimit, eiPhase, eiIndex, eiAnswers, eiFlagged, eiTimes,
                         eiShowSubmit, eiShowQuit, eiQStart, tmRemaining, tmArmed, eiOut,
                         eiOutTime, eiOutAt, eiBy, hostVars>>
  /\ UNCHANGED <<pctVars, scoreVars, submitVars, boardVars, appVars, weakVars, parseVars, saveVars, trendVars, accessVars, dashVars>>

----------------------------------------------------------------------------
(* The client application: App.tsx with the components its routes mount    *)
(* (ExamSetup, ExamInterface, ExamResults, SharedExam, WeakAreaDrill) and  *)
(* the Navbar.  An attempt is one mount of ExamInterface; `attempts`       *)
(* records, per attempt, what the client did with it.  Question lists are  *)
(* kept by their length, answers by the attempt they were given in (0: no  *)
(* answers), and App's timeTaken is left out.                              *)

\* most questions an exam holds
MaxExamLen == 2
\* ExamInterface mounts followed
MaxMounts == 3
\* route changes followed
MaxNavs == 2
\* score submissions followed per attempt
MaxScorePosts == 2

\* jsonInput of the setup form: blank, not parseable, or an array of n questions
JsonBlank == -2
JsonInvalid == -1

AppRoutes == {"/", "/dashboard", "/drill", "/shared"}

NewAttempt(host) ==
  [status |-> "active", host |-> host, answered |-> FALSE, posts |-> 0, lbPosts |-> 0,
   scored |-> FALSE]


\* what the element of the route "/" renders for an App state
MainShows(a) ==
  IF a.appState = "setup" THEN "setup"
  ELSE IF a.appState = "taking" /\ a.currentExam # Null THEN "interface"
  ELSE IF a.appState = "results" /\ a.currentExam # Null THEN "results"
  ELSE "nothing"

\* {appState !== 'taking' && <Navbar />}
NavbarShown == app.appState # "taking"

AppIdle ==
  /\ apAuth = FALSE
  /\ apRoute = "/"
  /\ apNavs = 0
  /\ apCrashed = FALSE
  /\ app = AppMounted
  /\ apAttempt = 0
  /\ rtAttempt = 0
  /\ suInput = JsonBlank
  /\ suParsed = Null
  /\ suError = ""
  /\ uiAttempt = 0
  /\ uiAnswers = 0
  /\ erHasSaved = FALSE
  /\ erView = "summary"
  /\ shPhase = "none"
  /\ shExam = Null
  /\ shScore = 0
  /\ drPhase = "none"
  /\ drExam = Null
  /\ drAnswers = 0
  /\ drError = FALSE
  /\ srvShared = Null
  /\ attempts = <<>>

\* the page is opened at "/" or at a shared link, signed in or not
AppInit ==
  /\ apAuth \in BOOLEAN
  /\ apRoute \in {"/", "/shared"}
  /\ apNavs = 0
  /\ apCrashed = FALSE
  /\ app = AppMounted
  /\ apAttempt = 0
  /\ rtAttempt = 0
  /\ suInput = JsonBlank
  /\ suParsed = Null
  /\ suError = ""
  /\ uiAttempt = 0
  /\ uiAnswers = 0
  /\ erHasSaved = FALSE
  /\ erView = "summary"
  /\ shPhase = IF apRoute = "/shared" THEN "loading" ELSE "none"
  /\ shExam = Null
  /\ shScore = 0
  /\ drPhase = "none"
  /\ drExam = Null
  /\ drAnswers = 0
  /\ drError = FALSE
  /\ srvShared = Null
  /\ attempts = <<>>

\* ExamResults mounts for attempt a: the results are computed in its render,
\* its auto-save effect runs with hasSaved.current false
ResultsMounted(atts, a) ==
  [atts EXCEPT ![a].scored = TRUE,
               ![a].posts = IF apAuth THEN @ + 1 ELSE @]

\* an ExamInterface mounted for attempt a is removed without onSubmit or onQuit
Unmounted(atts) ==
  IF uiAttempt # 0 /\ atts[uiAttempt].status = "active"
  THEN [atts EXCEPT ![uiAttempt].status = "left"]
  ELSE atts

CanMount == Len(attempts) < MaxMounts

\* ---- ExamSetup (route "/", appState 'setup')

SetupShown == ~apCrashed /\ apRoute = "/" /\ MainShows(app) = "setup"

\* the questions textarea is edited: onChange
SuEdit ==
  /\ SetupShown
  /\ \E input \in JsonBlank..MaxExamLen : suInput' = input
  /\ suParsed' = Null
  /\ UNCHANGED <<apAuth, apRoute, apNavs, apCrashed, app, apAttempt, rtAttempt, suError,
                 uiAttempt, uiAnswers, erHasSaved, erView, shPhase, shExam, shScore, drPhase,
                 drExam, drAnswers, drError, srvShared, attempts>>
  /\ UNCHANGED <<pctVars, scoreVars, submitVars, boardVars, examVars, weakVars, parseVars, saveVars, trendVars, accessVars, dashVars>>

\* handlePreview
SuPreview ==
  /\ SetupShown
  /\ IF suInput = JsonBlank
     THEN suError' = "Paste your questions JSON first" /\ UNCHANGED suParsed
     ELSE IF suInput = JsonInvalid
          THEN suError' = "Invalid JSON" /\ UNCHANGED suParsed
          ELSE suError' = "" /\ suParsed' = suInput
  /\ UNCHANGED <<apAuth, apRoute, apNavs, apCrashed, app, apAttempt, rtAttempt, suInput,
                 uiAttempt, uiAnswers, erHasSaved, erView, shPhase, shExam, shScore, drPhase,
                 drExam, drAnswers, drError, srvShared, attempts>>
  /\ UNCHANGED <<pctVars, scoreVars, submitVars, boardVars, examVars, weakVars, parseVars, saveVars, trendVars, accessVars, dashVars>>

\* deleteQuestion(id) on a previewed question
SuDeleteQuestion ==
  /\ SetupShown
  /\ suParsed > 0
  /\ suParsed' = suParsed - 1
  /\ UNCHANGED <<apAuth, apRoute, apNavs, apCrashed, app, apAttempt, rtAttempt, suInput,
                 suError, uiAttempt, uiAnswers, erHasSaved, erView, shPhase, shExam, shScore,
                 drPhase, drExam, drAnswers, drError, srvShared, attempts>>
  /\ UNCHANGED <<pctVars, scoreVars, submitVars, boardVars, examVars, weakVars, parseVars, saveVars, trendVars, accessVars, dashVars>>

\* handleStart: the form is submitted with a title (blank or not) and a
\* question count setting
SuStart ==
  /\ SetupShown
  /\ CanMount
  /\ \E titled \in BOOLEAN, questionCount \in 0..MaxExamLen :
       LET questions == IF suParsed # Null THEN suParsed ELSE suInput
           count == IF questionCount > 0 THEN Min(questionCount, questions) ELSE questions
           rejected == IF ~titled THEN "Please enter an exam title"
                       ELSE IF questions < 0 THEN "Invalid JSON"
                       ELSE IF questions = 0 THEN "No valid questions found"
                       ELSE ""
       IN  IF rejected # ""
           THEN /\ suError' = rejected
                /\ UNCHANGED <<app, apAttempt, suInput, suParsed, uiAttempt, attempts>>
           ELSE /\ app' = handleStartExam(app, count)
                /\ attempts' = Append(attempts, NewAttempt("main"))
                /\ apAttempt' = Len(attempts) + 1
                /\ uiAttempt' = Len(attempts) + 1
                /\ suInput' = JsonBlank
                /\ suParsed' = Null
                /\ suError' = ""
  /\ UNCHANGED <<apAuth, apRoute, apNavs, apCrashed, rtAttempt, uiAnswers, erHasSaved, erView,
                 shPhase, shExam, shScore, drPhase, drExam, drAnswers, drError, srvShared>>
  /\ UNCHANGED <<pctVars, scoreVars, submitVars, boardVars, examVars, weakVars, parseVars, saveVars, trendVars, accessVars, dashVars>>

\* ---- ExamInterface as its hosts see it

\* an answer is selected in the mounted interface
UiAnswer ==
  /\ ~apCrashed
  /\ uiAttempt # 0
  /\ uiAnswers' = uiAttempt
  /\ attempts' = [attempts EXCEPT ![uiAttempt].answered = TRUE]
  /\ UNCHANGED <<apAuth, apRoute, apNavs, apCrashed, app, apAttempt, rtAttempt, suInput,
                 suParsed, suError, uiAttempt, erHasSaved, erView, shPhase, shExam, shScore,
                 drPhase, drExam, drAnswers, drError, srvShared>>
  /\ UNCHANGED <<pctVars, scoreVars, submitVars, boardVars, examVars, weakVars, parseVars, saveVars, trendVars, accessVars, dashVars>>

MainInterface == ~apCrashed /\ apRoute = "/" /\ MainShows(app) = "interface" /\ uiAttempt # 0

\* onSubmit in App: handleSubmitExam, then ExamResults replaces the interface
AppSubmit ==
  /\ MainInterface
  /\ app' = handleSubmitExam(app, uiAnswers)
  /\ attempts' = ResultsMounted([attempts EXCEPT ![uiAttempt].status = "submitted"], apAttempt)
  /\ erHasSaved' = apAuth
  /\ erView' = "summary"
  /\ uiAttempt' = 0
  /\ uiAnswers' = 0
  /\ UNCHANGED <<apAuth, apRoute, apNavs, apCrashed, apAttempt, rtAttempt, suInput, suParsed,
                 suError, shPhase, shExam, shScore, drPhase, drExam, drAnswers, drError,
                 srvShared>>
  /\ UNCHANGED <<pctVars, scoreVars, submitVars, boardVars, examVars, weakVars, parseVars, saveVars, trendVars, accessVars, dashVars>>

\* onQuit in App: handleQuit, then whatever the new App state renders
AppQuit ==
  /\ MainInterface
  /\ LET next == handleQuit(app)
         quitted == [attempts EXCEPT ![uiAttempt].status = "abandoned"]
     IN  /\ app' = next
         /\ IF MainShows(next) = "results"
            THEN attempts' = ResultsMounted(quitted, apAttempt) /\ erHasSaved' = apAuth
            ELSE attempts' = quitted /\ erHasSaved' = FALSE
  /\ uiAttempt' = 0
  /\ uiAnswers' = 0
  /\ UNCHANGED <<apAuth, apRoute, apNavs, apCrashed, apAttempt, rtAttempt, suInput, suParsed,
                 suError, erView, shPhase, shExam, shScore, drPhase, drExam, drAnswers, drError,
                 srvShared>>
  /\ UNCHANGED <<pctVars, scoreVars, submitVars, boardVars, examVars, weakVars, parseVars, saveVars, trendVars, accessVars, dashVars>>

\* ---- ExamResults

MainResults == ~apCrashed /\ apRoute = "/" /\ MainShows(app) = "results"
DrillResults == ~apCrashed /\ apRoute = "/drill" /\ drPhase = "results"

\* the summary/review switch: a re-render, no effect runs
ErSetView ==
  /\ MainResults \/ DrillResults
  /\ erView' = IF erView = "summary" THEN "review" ELSE "summary"
  /\ UNCHANGED <<apAuth, apRoute, apNavs, apCrashed, app, apAttempt, rtAttempt, suInput,
                 suParsed, suError, uiAttempt, uiAnswers, erHasSaved, shPhase, shExam, shScore,
                 drPhase, drExam, drAnswers, drError, srvShared, attempts>>
  /\ UNCHANGED <<pctVars, scoreVars, submitVars, boardVars, examVars, weakVars, parseVars, saveVars, trendVars, accessVars, dashVars>>

\* the auto-save effect runs again on the mounted component (StrictMode
\* re-invokes effects): hasSaved.current decides
ErEffectAgain ==
  /\ MainResults \/ DrillResults
  /\ LET a == IF apRoute = "/" THEN apAttempt ELSE rtAttempt
     IN  IF ~apAuth \/ erHasSaved
         THEN UNCHANGED <<erHasSaved, attempts>>
         ELSE /\ erHasSaved' = TRUE
              /\ attempts' = [attempts EXCEPT ![a].posts = @ + 1]
  /\ UNCHANGED <<apAuth, apRoute, apNavs, apCrashed, app, apAttempt, rtAttempt, suInput,
                 suParsed, suError, uiAttempt, uiAnswers, erView, shPhase, shExam, shScore,
                 drPhase, drExam, drAnswers, drError, srvShared>>
  /\ UNCHANGED <<pctVars, scoreVars, submitVars, boardVars, examVars, weakVars, parseVars, saveVars, trendVars, accessVars, dashVars>>

\* onRetake in App: handleRetake, a new interface mounts for the same exam
ErRetake ==
  /\ MainResults
  /\ CanMount
  /\ app' = handleRetake(app)
  /\ attempts' = Append(attempts, NewAttempt("main"))
  /\ apAttempt' = Len(attempts) + 1
  /\ uiAttempt' = Len(attempts) + 1
  /\ uiAnswers' = 0
  /\ erHasSaved' = FALSE
  /\ erView' = "summary"
  /\ UNCHANGED <<apAuth, apRoute, apNavs, apCrashed, rtAttempt, suInput, suParsed, suError,
                 shPhase, shExam, shScore, drPhase, drExam, drAnswers, drError, srvShared>>
  /\ UNCHANGED <<pctVars, scoreVars, submitVars, boardVars, examVars, weakVars, parseVars, saveVars, trendVars, accessVars, dashVars>>

\* onNewExam in App: handleNewExam
ErNewExam ==
  /\ MainResults
  /\ app' = handleNewExam(app)
  /\ erHasSaved' = FALSE
  /\ erView' = "summary"
  /\ UNCHANGED <<apAuth, apRoute, apNavs, apCrashed, apAttempt, rtAttempt, suInput, suParsed,
                 suError, uiAttempt, uiAnswers, shPhase, shExam, shScore, drPhase, drExam,
                 drAnswers, drError, srvShared, attempts>>
  /\ UNCHANGED <<pctVars, scoreVars, submitVars, boardVars, examVars, weakVars, parseVars, saveVars, trendVars, accessVars, dashVars>>

\* ---- routes

\* the router shows another route: the components of the old one unmount
\* (their state and refs are gone), those of the new one mount
RouteTo(to, atts) ==
  /\ apRoute' = to
  /\ suInput' = JsonBlank
  /\ suParsed' = Null
  /\ suError' = ""
  /\ uiAttempt' = 0
  /\ uiAnswers' = 0
  /\ rtAttempt' = 0
  /\ erView' = "summary"
  /\ shPhase' = "none"
  /\ shExam' = Null
  /\ shScore' = 0
  /\ drPhase' = IF to = "/drill" THEN "loading" ELSE "none"
  /\ drExam' = Null
  /\ drAnswers' = 0
  /\ drError' = FALSE
  /\ IF to = "/" /\ MainShows(app) = "results"
     THEN attempts' = ResultsMounted(Unmounted(atts), apAttempt) /\ erHasSaved' = apAuth
     ELSE attempts' = Unmounted(atts) /\ erHasSaved' = FALSE

\* a Link of the Navbar is clicked
NavClick ==
  /\ ~apCrashed
  /\ NavbarShown
  /\ apNavs < MaxNavs
  /\ \E to \in {"/", "/dashboard", "/drill"} :
       /\ to # apRoute
       /\ to # "/" => apAuth
       /\ RouteTo(to, attempts)
  /\ apNavs' = apNavs + 1
  /\ UNCHANGED <<apAuth, apCrashed, app, apAttempt, srvShared>>
  /\ UNCHANGED <<pctVars, scoreVars, submitVars, boardVars, examVars, weakVars, parseVars, saveVars, trendVars, accessVars, dashVars>>

\* ---- shared exams (SharedExam, route "/shared/:shareId")

\* POST /exams/share by some signed-in API client: bankSaveSchema accepts
\* any array of questions.  Only the exam behind the opened link is
\* followed, so it is created while the page waits for it.
SrvShare ==
  /\ srvShared = Null
  /\ shPhase = "loading"
  /\ \E n \in 0..MaxExamLen : srvShared' = n
  /\ UNCHANGED <<apAuth, apRoute, apNavs, apCrashed, app, apAttempt, rtAttempt, suInput,
                 suParsed, suError, uiAttempt, uiAnswers, erHasSaved, erView, shPhase, shExam,
                 shScore, drPhase, drExam, drAnswers, drError, attempts>>
  /\ UNCHANGED <<pctVars, scoreVars, submitVars, boardVars, examVars, weakVars, parseVars, saveVars, trendVars, accessVars, dashVars>>

SharedShown == ~apCrashed /\ apRoute = "/shared"

\* loadExam resolves: GET /exams/shared/:shareId
ShLoaded ==
  /\ SharedShown
  /\ shPhase = "loading"
  /\ IF srvShared = Null
     THEN shPhase' = "error" /\ UNCHANGED shExam
     ELSE shPhase' = "intro" /\ shExam' = srvShared
  /\ UNCHANGED <<apAuth, apRoute, apNavs, apCrashed, app, apAttempt, rtAttempt, suInput,
                 suParsed, suError, uiAttempt, uiAnswers, erHasSaved, erView, shScore, drPhase,
                 drExam, drAnswers, drError, srvShared, attempts>>
  /\ UNCHANGED <<pctVars, scoreVars, submitVars, boardVars, examVars, weakVars, parseVars, saveVars, trendVars, accessVars, dashVars>>

\* handleStartExam of SharedExam; the first render of ExamInterface reads
\* question.id of exam.questions[0] and throws when there is none
ShStart ==
  /\ SharedShown
  /\ shPhase = "intro"
  /\ CanMount
  /\ shPhase' = "taking"
  /\ IF shExam = 0
     THEN /\ apCrashed' = TRUE
          /\ UNCHANGED <<rtAttempt, uiAttempt, attempts>>
     ELSE /\ attempts' = Append(attempts, NewAttempt("shared"))
          /\ rtAttempt' = Len(attempts) + 1
          /\ uiAttempt' = Len(attempts) + 1
          /\ UNCHANGED apCrashed
  /\ UNCHANGED <<apAuth, apRoute, apNavs, app, apAttempt, suInput, suParsed, suError, uiAnswers,
                 erHasSaved, erView, shExam, shScore, drPhase, drExam, drAnswers, drError,
                 srvShared>>
  /\ UNCHANGED <<pctVars, scoreVars, submitVars, boardVars, examVars, weakVars, parseVars, saveVars, trendVars, accessVars, dashVars>>

SharedInterface == SharedShown /\ shPhase = "taking" /\ uiAttempt # 0

\* onSubmit in SharedExam: handleExamSubmit computes the score
ShSubmit ==
  /\ SharedInterface
  /\ shScore' = uiAttempt
  /\ shPhase' = "nickname"
  /\ attempts' = [attempts EXCEPT ![uiAttempt].status = "submitted",
                                  ![uiAttempt].scored = TRUE]
  /\ uiAttempt' = 0
  /\ uiAnswers' = 0
  /\ UNCHANGED <<apAuth, apRoute, apNavs, apCrashed, app, apAttempt, rtAttempt, suInput,
                 suParsed, suError, erHasSaved, erView, shExam, drPhase, drExam, drAnswers,
                 drError, srvShared>>
  /\ UNCHANGED <<pctVars, scoreVars, submitVars, boardVars, examVars, weakVars, parseVars, saveVars, trendVars, accessVars, dashVars>>

\* onQuit in SharedExam: setPhase('intro')
ShQuit ==
  /\ SharedInterface
  /\ shPhase' = "intro"
  /\ attempts' = [attempts EXCEPT ![uiAttempt].status = "abandoned"]
  /\ uiAttempt' = 0
  /\ uiAnswers' = 0
  /\ UNCHANGED <<apAuth, apRoute, apNavs, apCrashed, app, apAttempt, rtAttempt, suInput,
                 suParsed, suError, erHasSaved, erView, shExam, shScore, drPhase, drExam,
                 drAnswers, drError, srvShared>>
  /\ UNCHANGED <<pctVars, scoreVars, submitVars, boardVars, examVars, weakVars, parseVars, saveVars, trendVars, accessVars, dashVars>>

\* handleSubmitScore: blank nickname, or POST .../score then GET .../leaderboard
ShSubmitScore ==
  /\ SharedShown
  /\ shPhase = "nickname"
  /\ attempts[shScore].lbPosts < MaxScorePosts
  /\ \E outcome \in {"blank", "postFailed", "listFailed", "listed"} :
       /\ attempts' = IF outcome \in {"listFailed", "listed"}
                      THEN [attempts EXCEPT ![shScore].lbPosts = @ + 1]
                      ELSE attempts
       /\ shPhase' = IF outcome = "listed" THEN "leaderboard" ELSE shPhase
  /\ UNCHANGED <<apAuth, apRoute, apNavs, apCrashed, app, apAttempt, rtAttempt, suInput,
                 suParsed, suError, uiAttempt, uiAnswers, erHasSaved, erView, shExam, shScore,
                 drPhase, drExam, drAnswers, drError, srvShared>>
  /\ UNCHANGED <<pctVars, scoreVars, submitVars, boardVars, examVars, weakVars, parseVars, saveVars, trendVars, accessVars, dashVars>>

\* "Skip" of the nickname form: only the leaderboard is fetched
ShSkip ==
  /\ SharedShown
  /\ shPhase = "nickname"
  /\ shPhase' = "leaderboard"
  /\ UNCHANGED <<apAuth, apRoute, apNavs, apCrashed, app, apAttempt, rtAttempt, suInput,
                 suParsed, suError, uiAttempt, uiAnswers, erHasSaved, erView, shExam, shScore,
                 drPhase, drExam, drAnswers, drError, srvShared, attempts>>
  /\ UNCHANGED <<pctVars, scoreVars, submitVars, boardVars, examVars, weakVars, parseVars, saveVars, trendVars, accessVars, dashVars>>

\* "Retake" of the leaderboard: setPhase('intro')
ShRetake ==
  /\ SharedShown
  /\ shPhase = "leaderboard"
  /\ shPhase' = "intro"
  /\ UNCHANGED <<apAuth, apRoute, apNavs, apCrashed, app, apAttempt, rtAttempt, suInput,
                 suParsed, suError, uiAttempt, uiAnswers, erHasSaved, erView, shExam, shScore,
                 drPhase, drExam, drAnswers, drError, srvShared, attempts>>
  /\ UNCHANGED <<pctVars, scoreVars, submitVars, boardVars, examVars, weakVars, parseVars, saveVars, trendVars, accessVars, dashVars>>

\* navigate('/') of the error, intro and leaderboard pages
ShHome ==
  /\ SharedShown
  /\ shPhase \in {"error", "intro", "leaderboard"}
  /\ RouteTo("/", attempts)
  /\ UNCHANGED <<apAuth, apNavs, apCrashed, app, apAttempt, srvShared>>
  /\ UNCHANGED <<pctVars, scoreVars, submitVars, boardVars, examVars, weakVars, parseVars, saveVars, trendVars, accessVars, dashVars>>

\* ---- weak-area drill (WeakAreaDrill, route "/drill")

DrillShown == ~apCrashed /\ apRoute = "/drill"

\* getWeakAreas() settles: rejected (Null), or a list of n questions
DrLoaded ==
  /\ DrillShown
  /\ drPhase = "loading"
  /\ \E n \in Null..MaxExamLen :
       IF n <= 0
       THEN /\ drPhase' = "empty"
            /\ drError' = (n = Null)
            /\ UNCHANGED <<drExam, rtAttempt, uiAttempt, attempts>>
       ELSE /\ CanMount
            /\ drPhase' = "drill"
            /\ drExam' = n
            /\ attempts' = Append(attempts, NewAttempt("drill"))
            /\ rtAttempt' = Len(attempts) + 1
            /\ uiAttempt' = Len(attempts) + 1
            /\ UNCHANGED drError
  /\ UNCHANGED <<apAuth, apRoute, apNavs, apCrashed, app, apAttempt, suInput, suParsed, suError,
                 uiAnswers, erHasSaved, erView, shPhase, shExam, shScore, drAnswers, srvShared>>
  /\ UNCHANGED <<pctVars, scoreVars, submitVars, boardVars, examVars, weakVars, parseVars, saveVars, trendVars, accessVars, dashVars>>

\* retryLoad from the error page
DrRetry ==
  /\ DrillShown
  /\ drPhase = "empty"
  /\ drError
  /\ drPhase' = "loading"
  /\ drError' = FALSE
  /\ UNCHANGED <<apAuth, apRoute, apNavs, apCrashed, app, apAttempt, rtAttempt, suInput,
                 suParsed, suError, uiAttempt, uiAnswers, erHasSaved, erView, shPhase, shExam,
                 shScore, drExam, drAnswers, srvShared, attempts>>
  /\ UNCHANGED <<pctVars, scoreVars, submitVars, boardVars, examVars, weakVars, parseVars, saveVars, trendVars, accessVars, dashVars>>

\* "Go to Dashboard" of the empty page
DrGoDashboard ==
  /\ DrillShown
  /\ drPhase = "empty"
  /\ RouteTo("/dashboard", attempts)
  /\ UNCHANGED <<apAuth, apNavs, apCrashed, app, apAttempt, srvShared>>
  /\ UNCHANGED <<pctVars, scoreVars, submitVars, boardVars, examVars, weakVars, parseVars, saveVars, trendVars, accessVars, dashVars>>

DrillInterface == DrillShown /\ drPhase = "drill" /\ uiAttempt # 0

\* onSubmit in WeakAreaDrill: handleSubmit, then ExamResults mounts
DrSubmit ==
  /\ DrillInterface
  /\ drAnswers' = uiAnswers
  /\ drPhase' = "results"
  /\ attempts' = ResultsMounted([attempts EXCEPT ![uiAttempt].status = "submitted"], rtAttempt)
  /\ erHasSaved' = apAuth
  /\ erView' = "summary"
  /\ uiAttempt' = 0
  /\ uiAnswers' = 0
  /\ UNCHANGED <<apAuth, apRoute, apNavs, apCrashed, app, apAttempt, rtAttempt, suInput,
                 suParsed, suError, shPhase, shExam, shScore, drExam, drError, srvShared>>
  /\ UNCHANGED <<pctVars, scoreVars, submitVars, boardVars, examVars, weakVars, parseVars, saveVars, trendVars, accessVars, dashVars>>

\* onQuit in WeakAreaDrill: navigate('/dashboard')
DrQuit ==
  /\ DrillInterface
  /\ RouteTo("/dashboard", [attempts EXCEPT ![uiAttempt].status = "abandoned"])
  /\ UNCHANGED <<apAuth, apNavs, apCrashed, app, apAttempt, srvShared>>
  /\ UNCHANGED <<pctVars, scoreVars, submitVars, boardVars, examVars, weakVars, parseVars, saveVars, trendVars, accessVars, dashVars>>

\* onRetake in WeakAreaDrill: answers cleared, retryLoad
DrRetake ==
  /\ DrillResults
  /\ drAnswers' = 0
  /\ drPhase' = "loading"
  /\ drError' = FALSE
  /\ erHasSaved' = FALSE
  /\ erView' = "summary"
  /\ UNCHANGED <<apAuth, apRoute, apNavs, apCrashed, app, apAttempt, rtAttempt, suInput,
                 suParsed, suError, uiAttempt, uiAnswers, shPhase, shExam, shScore, drExam,
                 srvShared, attempts>>
  /\ UNCHANGED <<pctVars, scoreVars, submitVars, boardVars, examVars, weakVars, parseVars, saveVars, trendVars, accessVars, dashVars>>

\* onNewExam in WeakAreaDrill: navigate('/dashboard')
DrNewExam ==
  /\ DrillResults
  /\ RouteTo("/dashboard", attempts)
  /\ UNCHANGED <<apAuth, apNavs, apCrashed, app, apAttempt, srvShared>>
  /\ UNCHANGED <<pctVars, scoreVars, submitVars, boardVars, examVars, weakVars, parseVars, saveVars, trendVars, accessVars, dashVars>>

----------------------------------------------------------------------------
(* The weak-area analyzer: GET /exams/weak-areas over the answers of the   *)
(* user's stored ExamResults, read in storage order.  A questionId is kept *)
(* by its form, which decides how the plain object `stats` treats it as a  *)
(* key: "num" is an integer-like string ("9", "10"), "str" any other own   *)
(* key ("q_1"), "proto" the name of a member every object inherits         *)
(* ("constructor").  The question text, correctAnswers and topic of an     *)
(* answer are kept together as the version of the question's metadata.     *)

\* at most this many entries are returned
WaCap == 30
\* attempts a question needs to be listed
WaMinAttempts == 2
\* answers stored after the start
WaMaxStored == 2
\* questions of the long history
WaSeedLen == 31

WaId(form, n) == [form |-> form, n |-> n]
WaAnswer(id, isCorrect, meta) == [questionId |-> id, isCorrect |-> isCorrect, meta |-> meta]

\* a.correctAnswers of an answer stored with version meta of the question:
\* the version's one correct option
MetaCorrectAnswers(meta) == <<meta>>

\* ids and metadata versions of the answers stored after the start
WaIds == {WaId("str", 1), WaId("str", 2), WaId("num", 10), WaId("num", 9), WaId("proto", 0)}

\* an array given element by element, as the array of its elements
AsArray(elements) == elements \o <<>>
WaMetas == {1, 2}

\* a short history: one question wrong twice in four attempts, three more
\* questions wrong in their only attempt
WaShortSeed ==
  LET q == WaId("str", 1)
  IN  <<WaAnswer(q, FALSE, 1), WaAnswer(q, FALSE, 1), WaAnswer(q, TRUE, 1),
        WaAnswer(q, TRUE, 1), WaAnswer(WaId("num", 10), FALSE, 1),
        WaAnswer(WaId("num", 9), FALSE, 1), WaAnswer(WaId("proto", 0), FALSE, 1)>>

\* a long history: WaSeedLen questions answered three times, wrong each time
\* or, those with an even number, correctly the third time
WaLongSeed ==
  [i \in 1..(3 * WaSeedLen) |->
     LET k == ((i - 1) \div 3) + 1
     IN  WaAnswer(WaId("str", 100 + k), i % 3 = 0 /\ k % 2 = 0, 1)]

\* stats[id] is truthy before the loop has assigned it: inherited members
InheritedKey(id) == id.form = "proto"

\* the k-th smallest number of a set
Smallest(S, k) == CHOOSE x \in S : Cardinality({y \in S : y <= x}) = k

\* the own keys of stats after the grouping loop, in insertion order: each
\* key is inserted by the first answer that carries it
OwnKeysInserted(answers) ==
  LET firsts == {i \in 1..Len(answers) :
                   /\ ~InheritedKey(answers[i].questionId)
                   /\ \A j \in 1..(i - 1) : answers[j].questionId # answers[i].questionId}
  IN  AsArray([k \in 1..Cardinality(firsts) |-> answers[Smallest(firsts, k)].questionId])

\* Object.entries(stats): integer-like keys in ascending numeric order, then
\* the other keys in insertion order
StatsKeys(answers) ==
  LET inserted == OwnKeysInserted(answers)
      numeric == {inserted[i].n : i \in {j \in 1..Len(inserted) : inserted[j].form = "num"}}
      numericKeys == AsArray([i \in 1..Cardinality(numeric) |->
                                WaId("num", Smallest(numeric, i))])
  IN  numericKeys \o SelectSeq(inserted, LAMBDA id : id.form # "num")

Occurs(answers, id) == {i \in 1..Len(answers) : answers[i].questionId = id}

\* stats[id] after the grouping loop: metadata set when the entry is created
\* together with options: [], total and wrong counted over all answers
StatsOf(answers, id) ==
  LET at == Occurs(answers, id)
      first == CHOOSE i \in at : \A j \in at : i <= j
  IN  [meta |-> answers[first].meta,
       options |-> <<>>,
       total |-> Cardinality(at),
       wrong |-> Cardinality({i \in at : ~answers[i].isCorrect})]

\* s.total >= 2 && s.wrong / s.total > 0.4
IsWeak(s) == s.total >= WaMinAttempts /\ s.wrong * 5 > s.total * 2

\* parseFloat((1 - s.wrong / s.total).toFixed(2)), in hundredths
UserAccuracy(s) == NearestMultiples(s.total - s.wrong, s.total, 100)

\* .sort((a, b) => a.userAccuracy - b.userAccuracy), a stable sort: an
\* element goes behind the smaller ones and the equal ones that preceded it
SortByAccuracy(arr) ==
  LET place(i) == Cardinality({j \in 1..Len(arr) :
                                 \/ arr[j].userAccuracy < arr[i].userAccuracy
                                 \/ arr[j].userAccuracy = arr[i].userAccuracy /\ j <= i})
  IN  AsArray([k \in 1..Len(arr) |-> arr[CHOOSE i \in 1..Len(arr) : place(i) = k]])

\* the weakAreas array, given for each listed key whether toFixed rounds a
\* tie up
WeakAreas(answers, roundedUp) ==
  LET keys == StatsKeys(answers)
      weak == SelectSeq(keys, LAMBDA id : IsWeak(StatsOf(answers, id)))
      mapped == AsArray([i \in 1..Len(weak) |->
                   LET s == StatsOf(answers, weak[i])
                       near == UserAccuracy(s)
                       acc == IF weak[i] \in roundedUp
                              THEN CHOOSE x \in near : \A y \in near : y <= x
                              ELSE CHOOSE x \in near : \A y \in near : x <= y
                   IN  [questionId |-> weak[i], meta |-> s.meta, options |-> s.options,
                        timesAttempted |-> s.total, userAccuracy |-> acc]])
      sorted == SortByAccuracy(mapped)
  IN  SubSeq(sorted, 1, Min(Len(sorted), WaCap))

\* keys whose accuracy lies exactly between two hundredths
TiedKeys(answers) ==
  {id \in Range(StatsKeys(answers)) : Cardinality(UserAccuracy(StatsOf(answers, id))) > 1}

WeakIdle ==
  /\ waStored = <<>>
  /\ waAdded = 0
  /\ waSeen = <<>>
  /\ waResp = <<>>
  /\ waStatus = 0

WeakInit ==
  /\ waStored \in {<<>>, WaShortSeed, WaLongSeed}
  /\ waAdded = 0
  /\ waSeen = <<>>
  /\ waResp = <<>>
  /\ waStatus = 0

\* one more answer of the user is stored (POST /submit of a result)
WaStore ==
  /\ waAdded < WaMaxStored
  /\ \E id \in WaIds, isCorrect \in BOOLEAN, meta \in WaMetas :
       waStored' = Append(waStored, WaAnswer(id, isCorrect, meta))
  /\ waAdded' = waAdded + 1
  /\ UNCHANGED <<waSeen, waResp, waStatus>>
  /\ UNCHANGED <<pctVars, scoreVars, submitVars, boardVars, examVars, appVars, parseVars, saveVars, trendVars, accessVars, dashVars>>

\* GET /weak-areas
WaGetWeakAreas ==
  /\ \E findOk \in BOOLEAN :
       IF findOk
       THEN /\ \E roundedUp \in SUBSET TiedKeys(waStored) :
                 waResp' = WeakAreas(waStored, roundedUp)
            /\ waSeen' = waStored
            /\ waStatus' = 200
       ELSE /\ waStatus' = 500
            /\ waResp' = <<>>
            /\ waSeen' = <<>>
  /\ UNCHANGED <<waStored, waAdded>>
  /\ UNCHANGED <<pctVars, scoreVars, submitVars, boardVars, examVars, appVars, parseVars, saveVars, trendVars, accessVars, dashVars>>

----------------------------------------------------------------------------
(* The question-set parser: parseQuestions of ExamSetup.tsx applied to a   *)
(* JSON array of records.  Answers and options are numbers; a field that   *)
(* is absent, or is no array where the code tests Array.isArray, has the   *)
(* kind "none".                                                            *)

\* records of a batch
MaxBatch == 2
\* distinct option texts
PqTexts == 2
\* longest options or correctAnswers array
PqMaxLen == 2

\* q.correctAnswer: absent, the empty string, or an answer text
NoAnswer == -1
EmptyText == 0

PqArrays == SeqsUpTo(1..PqTexts, PqMaxLen)
PqNone == [kind |-> "none", items |-> <<>>]
PqArrayFields == {PqNone} \cup {[kind |-> "array", items |-> a] : a \in {b \in PqArrays : NoDup(b)}}

\* q.id absent or the empty string
NoId == <<>>
\* the text `q_${n}`
QId(n) == <<"q_", n>>
\* ids a record can supply: the author may number the records the way the
\* parser does
PqIds == {QId(2)}

\* the records of the input: q.id, q.question (text or empty),
\* q.options, q.correctAnswers, q.correctAnswer
PqRecords ==
  [id : {NoId} \cup PqIds, question : {EmptyText, 1}, options : PqArrayFields,
   correctAnswers : PqArrayFields, correctAnswer : {NoAnswer, EmptyText, 1, 2}]

\* !q.question || !q.options || !Array.isArray(q.options)
PqInvalidQuestion(q) == q.question = EmptyText \/ q.options.kind # "array"

\* Array.isArray(q.correctAnswers) ? q.correctAnswers
\*   : q.correctAnswer ? [q.correctAnswer] : []
PqCorrectAnswers(q) ==
  IF q.correctAnswers.kind = "array" THEN q.correctAnswers.items
  ELSE IF q.correctAnswer \notin {NoAnswer, EmptyText} THEN <<q.correctAnswer>> ELSE <<>>

\* the callback of parsed.map for the record at index i (0-based): the
\* error it throws, or the Question it returns
PqMapRecord(q, i) ==
  IF PqInvalidQuestion(q)
  THEN [error |-> "Invalid question at index", at |-> i]
  ELSE IF Len(PqCorrectAnswers(q)) = 0
  THEN [error |-> "No correct answer for question", at |-> i + 1]
  ELSE [error |-> "",
        id |-> IF q.id # NoId THEN q.id ELSE QId(i + 1),
        question |-> q.question,
        options |-> q.options.items,
        correctAnswers |-> PqCorrectAnswers(q),
        type |-> IF Len(PqCorrectAnswers(q)) > 1 THEN "multi" ELSE "single"]

\* parseQuestions(raw) for a raw text that is a JSON array: the first throw
\* of the map ends it
parseQuestions(batch) ==
  LET mapped == [i \in 1..Len(batch) |-> PqMapRecord(batch[i], i - 1)]
      failed == {i \in 1..Len(batch) : mapped[i].error # ""}
  IN  IF failed = {}
      THEN [status |-> "returned", questions |-> mapped, error |-> "", at |-> 0]
      ELSE LET first == CHOOSE i \in failed : \A j \in failed : i <= j
           IN  [status |-> "thrown", questions |-> <<>>, error |-> mapped[first].error,
                at |-> mapped[first].at]

PqNotRun == [status |-> "none", questions |-> <<>>, error |-> "", at |-> 0]

ParseIdle ==
  /\ pqBatch = <<>>
  /\ pqOut = PqNotRun

ParseInit == ParseIdle

\* one more record in the pasted array
PqAddRecord ==
  /\ pqOut = PqNotRun
  /\ Len(pqBatch) < MaxBatch
  /\ \E q \in PqRecords : pqBatch' = Append(pqBatch, q)
  /\ UNCHANGED pqOut
  /\ UNCHANGED <<pctVars, scoreVars, submitVars, boardVars, examVars, appVars, weakVars, saveVars, trendVars, accessVars, dashVars>>

\* parseQuestions runs on the pasted array (handlePreview, handleStart)
PqParse ==
  /\ pqOut = PqNotRun
  /\ pqOut' = parseQuestions(pqBatch)
  /\ UNCHANGED pqBatch
  /\ UNCHANGED <<pctVars, scoreVars, submitVars, boardVars, examVars, appVars, weakVars, saveVars, trendVars, accessVars, dashVars>>

\* the textarea is edited again
PqEdit ==
  /\ pqOut # PqNotRun
  /\ pqOut' = PqNotRun
  /\ pqBatch' = <<>>
  /\ UNCHANGED <<pctVars, scoreVars, submitVars, boardVars, examVars, appVars, weakVars, saveVars, trendVars, accessVars, dashVars>>

----------------------------------------------------------------------------
(* The save state of the results screen (ExamResults): one mount of the    *)
(* component, its auto-save effect and the promise of examAPI.submitExam.  *)

\* most questions of the exam the results screen is mounted with
RsMaxQuestions == 2

RsExams ==
  {e \in SeqsUpTo([id : 1..RsMaxQuestions, correctAnswers : CorrectLists], RsMaxQuestions) :
     /\ Len(e) >= 1
     /\ \A i \in 1..Len(e) : e[i].id = i}

RsAnswersFor(exam) ==
  {a \in SeqsUpTo([questionId : 1..RsMaxQuestions, selectedAnswers : SelectionLists],
                  RsMaxQuestions) :
     /\ Len(a) = Len(exam)
     /\ \A i \in 1..Len(a) : a[i].questionId = i}

NoProps == [exam |-> <<>>, userAnswers |-> <<>>]

\* useState(isAuthenticated), useState(false), useState(''), useRef(false)
RsFirstRender(auth) ==
  [mounted |-> TRUE, view |-> "summary", saving |-> auth, saved |-> FALSE,
   saveError |-> "", hasSaved |-> FALSE]

RsUnmounted ==
  [mounted |-> FALSE, view |-> "summary", saving |-> FALSE, saved |-> FALSE,
   saveError |-> "", hasSaved |-> FALSE]

NothingShown == [score |-> Unset, isCorrect |-> <<>>, badge |-> "", view |-> "none"]

\* {saving ? 'Saving…' : saved ? '✓ Saved' : saveError}, inside isAuthenticated &&
SaveBadge(auth, s) ==
  IF ~auth THEN ""
  ELSE IF s.saving THEN "Saving"
  ELSE IF s.saved THEN "Saved"
  ELSE s.saveError

\* one render: results and score are computed from the props, the badge from
\* the save state
Rendered(props, auth, s) ==
  [score |-> ResultsScore(Results(props.exam, props.userAnswers)),
   isCorrect |-> [i \in 1..Len(props.exam) |->
                    Results(props.exam, props.userAnswers)[i].isCorrect],
   badge |-> SaveBadge(auth, s),
   view |-> s.view]

\* if (!isAuthenticated || hasSaved.current) return
SaveEffectRuns(auth, s) == auth /\ ~s.hasSaved

\* .then(() => setSaved(true)) ... .finally(() => setSaving(false))
SubmitResolved(s) == [s EXCEPT !.saved = TRUE, !.saving = FALSE]

SubmitRejected_StillSaving(s) == [s EXCEPT !.saveError = "Could not save"]

\* .catch(() => setSaveError('Could not save')).finally(() => setSaving(false))
SubmitRejected(s) == [s EXCEPT !.saveError = "Could not save", !.saving = FALSE]

SaveIdle ==
  /\ rsProps = NoProps
  /\ rsAuth = FALSE
  /\ rsState = RsUnmounted
  /\ rsRequest = "none"
  /\ rsPosts = 0
  /\ rsShown = NothingShown

SaveInit ==
  /\ rsProps = NoProps
  /\ rsAuth \in BOOLEAN
  /\ rsState = RsUnmounted
  /\ rsRequest = "none"
  /\ rsPosts = 0
  /\ rsShown = NothingShown

\* the results screen is mounted with a submitted attempt: first render, then
\* the auto-save effect
RsMount ==
  /\ ~rsState.mounted
  /\ \E e \in RsExams : \E a \in RsAnswersFor(e) :
       rsProps' = [exam |-> e, userAnswers |-> a]
  /\ IF SaveEffectRuns(rsAuth, RsFirstRender(rsAuth))
     THEN /\ rsState' = [RsFirstRender(rsAuth) EXCEPT !.hasSaved = TRUE]
          /\ rsRequest' = "pending"
          /\ rsPosts' = 1
     ELSE /\ rsState' = RsFirstRender(rsAuth)
          /\ rsRequest' = "none"
          /\ rsPosts' = 0
  /\ rsShown' = Rendered(rsProps', rsAuth, rsState')
  /\ UNCHANGED rsAuth
  /\ UNCHANGED <<pctVars, scoreVars, submitVars, boardVars, examVars, appVars, weakVars, parseVars, trendVars, accessVars, dashVars>>

\* the server answered 201
RsSaveResolved ==
  /\ rsState.mounted
  /\ rsRequest = "pending"
  /\ rsRequest' = "resolved"
  /\ rsState' = SubmitResolved(rsState)
  /\ rsShown' = Rendered(rsProps, rsAuth, rsState')
  /\ UNCHANGED <<rsProps, rsAuth, rsPosts>>
  /\ UNCHANGED <<pctVars, scoreVars, submitVars, boardVars, examVars, appVars, weakVars, parseVars, trendVars, accessVars, dashVars>>

\* the request failed: network error or a status other than 2xx
RsSaveRejected ==
  /\ rsState.mounted
  /\ rsRequest = "pending"
  /\ rsRequest' = "rejected"
  /\ rsState' = SubmitRejected(rsState)
  /\ rsShown' = Rendered(rsProps, rsAuth, rsState')
  /\ UNCHANGED <<rsProps, rsAuth, rsPosts>>
  /\ UNCHANGED <<pctVars, scoreVars, submitVars, boardVars, examVars, appVars, weakVars, parseVars, trendVars, accessVars, dashVars>>

\* setView(v) of the Summary / Review buttons
RsSetView ==
  /\ rsState.mounted
  /\ \E v \in {"summary", "review"} :
       /\ v # rsState.view
       /\ rsState' = [rsState EXCEPT !.view = v]
  /\ rsShown' = Rendered(rsProps, rsAuth, rsState')
  /\ UNCHANGED <<rsProps, rsAuth, rsRequest, rsPosts>>
  /\ UNCHANGED <<pctVars, scoreVars, submitVars, boardVars, examVars, appVars, weakVars, parseVars, trendVars, accessVars, dashVars>>

\* Sign out in the navbar: isAuthenticated changes, the effect runs again
RsLogout ==
  /\ rsState.mounted
  /\ rsAuth
  /\ rsAuth' = FALSE
  /\ IF SaveEffectRuns(rsAuth', rsState)
     THEN /\ rsState' = [rsState EXCEPT !.hasSaved = TRUE]
          /\ rsRequest' = "pending"
          /\ rsPosts' = rsPosts + 1
     ELSE UNCHANGED <<rsState, rsRequest, rsPosts>>
  /\ rsShown' = Rendered(rsProps, rsAuth', rsState')
  /\ UNCHANGED rsProps
  /\ UNCHANGED <<pctVars, scoreVars, submitVars, boardVars, examVars, appVars, weakVars, parseVars, trendVars, accessVars, dashVars>>

\* Retake or New exam: the screen is left
RsLeave ==
  /\ rsState.mounted
  /\ rsState' = RsUnmounted
  /\ rsProps' = NoProps
  /\ rsRequest' = "none"
  /\ rsPosts' = 0
  /\ rsShown' = NothingShown
  /\ UNCHANGED rsAuth
  /\ UNCHANGED <<pctVars, scoreVars, submitVars, boardVars, examVars, appVars, weakVars, parseVars, trendVars, accessVars, dashVars>>

----------------------------------------------------------------------------
(* The score trend of the dashboard: GET /history and chartItems.          *)

\* [...history].reverse().slice(-10)
TrendWindow == 10
\* most ExamResults of the user
TrMaxResults == 12
\* percentages a stored result carries
TrPercents == {40, 90}

\* Array.prototype.reverse
Reverse(arr) == [i \in 1..Len(arr) |-> arr[Len(arr) + 1 - i]]

\* Array.prototype.slice(start): a negative start counts from the end and is
\* clamped at the beginning
SliceFrom(arr, start) ==
  LET k == IF start < 0 THEN Max(Len(arr) + start, 0) ELSE Min(start, Len(arr))
  IN  [i \in 1..(Len(arr) - k) |-> arr[k + i]]

\* ExamResult.find({userId}).sort({createdAt: -1}): newest first
HistorySorted(stored) == Reverse(stored)

chartItems_FirstTen(history) == SubSeq(Reverse(history), 1, Min(TrendWindow, Len(history)))

chartItems(history) == SliceFrom(Reverse(history), 0 - TrendWindow)

TrendIdle ==
  /\ trStored = <<>>
  /\ trHistory = <<>>
  /\ trChart = <<>>

TrendInit == TrendIdle

\* POST /submit stores one more result; createdAt grows with every result
TrStoreResult ==
  /\ Len(trStored) < TrMaxResults
  /\ \E p \in TrPercents :
       trStored' = Append(trStored, [createdAt |-> Len(trStored) + 1, percentage |-> p])
  /\ UNCHANGED <<trHistory, trChart>>
  /\ UNCHANGED <<pctVars, scoreVars, submitVars, boardVars, examVars, appVars, weakVars, parseVars, saveVars, accessVars, dashVars>>

\* the dashboard mounts: GET /history answers, setHistory, render
TrLoadDashboard ==
  /\ trHistory # HistorySorted(trStored)
  /\ trHistory' = HistorySorted(trStored)
  /\ trChart' = chartItems(trHistory')
  /\ UNCHANGED trStored
  /\ UNCHANGED <<pctVars, scoreVars, submitVars, boardVars, examVars, appVars, weakVars, parseVars, saveVars, accessVars, dashVars>>

----------------------------------------------------------------------------
(* Who reaches what: the routes of server/routes/exams.js called with and  *)
(* without a token.  Requests of signed-in users build the collections;    *)
(* for a request without a token the documents its query loaded and the    *)
(* fields its response carries are recorded.                               *)

\* most SavedExam documents in the collection
AcMaxExams == 3
\* most entries on one leaderboard
AcMaxBoard == 2
\* most ExamResult documents
AcMaxResults == 1
\* most requests altogether
AcMaxReqs == 6

AcUsers == {"u1", "u2"}
\* values of randomUUID().replace(/-/g, '').slice(0, 12)
AcShareIds == {"s1", "s2"}
\* shareId of a SavedExam made by POST /bank: the path is not set
NoShareId == ""

\* routes behind authenticateToken
AcProtectedRoutes ==
  {"POST /submit", "GET /history", "GET /result/:id", "GET /bank", "POST /bank",
   "DELETE /bank/:id", "POST /share", "GET /weak-areas"}

\* entries a score submission can push
AcEntries == [nickname : {1}, score : {1}, percentage : LbPercents, timeTaken : {50}]

\* new SavedExam({ userId, ...value }) and, for a share, shareId and isPublic
AcSavedExam(id, userId, shareId) ==
  [_id |-> id, userId |-> userId, title |-> id, questions |-> <<id>>,
   shareId |-> shareId, isPublic |-> shareId # NoShareId, leaderboard |-> <<>>]

\* .select('-leaderboard') alone
SharedExcluded_OnlyBoard == {"leaderboard"}

\* .select('-leaderboard -userId')
SharedExcluded == {"leaderboard", "userId"}

\* a projection that leaves out the paths of `excluded`
SelectWithout(doc, excluded) == [f \in (DOMAIN doc) \ excluded |-> doc[f]]

\* documents matched by { shareId: req.params.shareId, isPublic: true }
SharedMatches(exams, shareId) ==
  {i \in 1..Len(exams) : exams[i].shareId = shareId /\ exams[i].isPublic}

NoResponse == <<>>

AcNoRequest ==
  [n |-> 0, auth |-> FALSE, route |-> "none", shareId |-> NoShareId, status |-> 0,
   read |-> {}, body |-> NoResponse]

AcRequest(auth, route, shareId, status, read, body) ==
  [n |-> acLast.n + 1, auth |-> auth, route |-> route, shareId |-> shareId,
   status |-> status, read |-> read, body |-> body]

AcNextId == IF acExams = <<>> THEN 1 ELSE acExams[Len(acExams)]._id + 1

AccessIdle ==
  /\ acExams = <<>>
  /\ acResults = <<>>
  /\ acProfiles = [u \in AcUsers |-> 0]
  /\ acLast = AcNoRequest

AccessInit == AccessIdle

\* POST /bank with a token: a private exam of the caller
AcBankSave ==
  /\ acLast.n < AcMaxReqs
  /\ AcNextId <= AcMaxExams
  /\ \E u \in AcUsers :
       /\ acExams' = Append(acExams, AcSavedExam(AcNextId, u, NoShareId))
       /\ acLast' = AcRequest(TRUE, "POST /bank", NoShareId, 201, {}, NoResponse)
  /\ UNCHANGED <<acResults, acProfiles>>
  /\ UNCHANGED <<pctVars, scoreVars, submitVars, boardVars, examVars, appVars, weakVars, parseVars, saveVars, trendVars, dashVars>>

\* POST /share with a token: a public copy under a fresh share id
AcShare ==
  /\ acLast.n < AcMaxReqs
  /\ AcNextId <= AcMaxExams
  /\ \E u \in AcUsers :
     \E s \in AcShareIds \ {acExams[i].shareId : i \in 1..Len(acExams)} :
       /\ acExams' = Append(acExams, AcSavedExam(AcNextId, u, s))
       /\ acLast' = AcRequest(TRUE, "POST /share", NoShareId, 201, {}, NoResponse)
  /\ UNCHANGED <<acResults, acProfiles>>
  /\ UNCHANGED <<pctVars, scoreVars, submitVars, boardVars, examVars, appVars, weakVars, parseVars, saveVars, trendVars, dashVars>>

\* DELETE /bank/:id with a token: findOneAndDelete({ _id, userId })
AcBankDelete ==
  /\ acLast.n < AcMaxReqs
  /\ \E u \in AcUsers : \E i \in 1..Len(acExams) :
       /\ acExams[i].userId = u
       /\ acExams' = SubSeq(acExams, 1, i - 1) \o SubSeq(acExams, i + 1, Len(acExams))
       /\ acLast' = AcRequest(TRUE, "DELETE /bank/:id", NoShareId, 200, {}, NoResponse)
  /\ UNCHANGED <<acResults, acProfiles>>
  /\ UNCHANGED <<pctVars, scoreVars, submitVars, boardVars, examVars, appVars, weakVars, parseVars, saveVars, trendVars, dashVars>>

\* POST /submit with a token: an ExamResult and the profile of the caller
AcSubmit ==
  /\ acLast.n < AcMaxReqs
  /\ Len(acResults) < AcMaxResults
  /\ \E u \in AcUsers :
       /\ acResults' = Append(acResults, [userId |-> u, score |-> 1])
       /\ acProfiles' = [acProfiles EXCEPT ![u] = @ + 1]
       /\ acLast' = AcRequest(TRUE, "POST /submit", NoShareId, 201, {}, NoResponse)
  /\ UNCHANGED acExams
  /\ UNCHANGED <<pctVars, scoreVars, submitVars, boardVars, examVars, appVars, weakVars, parseVars, saveVars, trendVars, dashVars>>

\* GET /shared/:shareId, no token
AcGetShared ==
  /\ acLast.n < AcMaxReqs
  /\ \E s \in AcShareIds :
       LET found == SharedMatches(acExams, s)
       IN  IF found = {}
           THEN acLast' = AcRequest(FALSE, "GET /shared/:shareId", s, 404, {}, NoResponse)
           ELSE \E i \in found :
                  acLast' = AcRequest(FALSE, "GET /shared/:shareId", s, 200, {i},
                                      [exam |-> SelectWithout(acExams[i], SharedExcluded)])
  /\ UNCHANGED <<acExams, acResults, acProfiles>>
  /\ UNCHANGED <<pctVars, scoreVars, submitVars, boardVars, examVars, appVars, weakVars, parseVars, saveVars, trendVars, dashVars>>

\* POST /shared/:shareId/score, no token
AcPostScore ==
  /\ acLast.n < AcMaxReqs
  /\ \E s \in AcShareIds, hasNickname \in BOOLEAN, e \in AcEntries :
       LET found == SharedMatches(acExams, s)
       IN  IF ~hasNickname
           THEN /\ acLast' = AcRequest(FALSE, "POST /shared/:shareId/score", s, 400, {},
                                       [error |-> "nickname and score are required"])
                /\ UNCHANGED acExams
           ELSE IF found = {}
           THEN /\ acLast' = AcRequest(FALSE, "POST /shared/:shareId/score", s, 404, {},
                                       NoResponse)
                /\ UNCHANGED acExams
           ELSE \E i \in found :
                  /\ Len(acExams[i].leaderboard) < AcMaxBoard
                  /\ acExams' = [acExams EXCEPT ![i].leaderboard = Append(@, e)]
                  /\ acLast' = AcRequest(FALSE, "POST /shared/:shareId/score", s, 201, {i},
                                         [leaderboard |-> Ranking(acExams'[i].leaderboard)])
  /\ UNCHANGED <<acResults, acProfiles>>
  /\ UNCHANGED <<pctVars, scoreVars, submitVars, boardVars, examVars, appVars, weakVars, parseVars, saveVars, trendVars, dashVars>>

\* GET /shared/:shareId/leaderboard, no token
AcGetLeaderboard ==
  /\ acLast.n < AcMaxReqs
  /\ \E s \in AcShareIds :
       LET found == SharedMatches(acExams, s)
       IN  IF found = {}
           THEN acLast' = AcRequest(FALSE, "GET /shared/:shareId/leaderboard", s, 404, {},
                                    NoResponse)
           ELSE \E i \in found :
                  acLast' = AcRequest(FALSE, "GET /shared/:shareId/leaderboard", s, 200, {i},
                                      [title |-> acExams[i].title,
                                       leaderboard |-> Ranking(acExams[i].leaderboard)])
  /\ UNCHANGED <<acExams, acResults, acProfiles>>
  /\ UNCHANGED <<pctVars, scoreVars, submitVars, boardVars, examVars, appVars, weakVars, parseVars, saveVars, trendVars, dashVars>>

\* a route behind authenticateToken, no token: the middleware answers 401 or
\* 403, or the handler throws on req.user.userId and answers 500; no query runs
AcProtected ==
  /\ acLast.n < AcMaxReqs
  /\ \E r \in AcProtectedRoutes, status \in {401, 403, 500} :
       acLast' = AcRequest(FALSE, r, NoShareId, status, {}, NoResponse)
  /\ UNCHANGED <<acExams, acResults, acProfiles>>
  /\ UNCHANGED <<pctVars, scoreVars, submitVars, boardVars, examVars, appVars, weakVars, parseVars, saveVars, trendVars, dashVars>>

----------------------------------------------------------------------------
(* The streak on the dashboard: POST /submit requests processed one at a   *)
(* time store the streak (server/routes/exams.js), the Dashboard's effect  *)
(* reads the user with GET /auth/me (server/routes/auth.js) and keeps      *)
(* current and longest in its streak state.                                *)

\* last instant of the server clock in this machine
DsMaxNow == 7

\* no Dashboard is mounted; a mounted one starts with streak null
DashNotMounted == [phase |-> "none", current |-> 0, longest |-> 0]

\* no POST /submit was answered yet
NoStreakResp == [current |-> 0, longest |-> 0]

DashIdle ==
  /\ dsNow = 0
  /\ dsUser = NoDoc
  /\ dsResp = NoStreakResp
  /\ dsDash = DashNotMounted

DashInit == DashIdle

\* time passes
DsTick ==
  /\ dsNow < DsMaxNow
  /\ dsNow' = dsNow + 1
  /\ UNCHANGED <<dsUser, dsResp, dsDash>>
  /\ UNCHANGED <<pctVars, scoreVars, submitVars, boardVars, examVars, appVars, weakVars, parseVars, saveVars, trendVars, accessVars>>

\* a POST /submit runs to its 201: updateStreak on the loaded user,
\* user.save(), and streak: {current, longest} in the response
DsSubmit ==
  /\ dsUser' = updateStreak(dsUser, dsNow)
  /\ dsResp' = [current |-> dsUser'.currentStreak, longest |-> dsUser'.longestStreak]
  /\ UNCHANGED <<dsNow, dsDash>>
  /\ UNCHANGED <<pctVars, scoreVars, submitVars, boardVars, examVars, appVars, weakVars, parseVars, saveVars, trendVars, accessVars>>

\* user of the GET /auth/me response: id, email, name, examHistory
MeUser(user) == [id |-> 1, email |-> "email", name |-> "name", examHistory |-> <<>>]

\* data.user[field] ?? 0
FieldOrZero(user, field) == IF field \in DOMAIN user THEN user[field] ELSE 0

\* the Dashboard mounts and its effect calls authAPI.getMe(): the response
\* sets streak, a failure leaves it null
DashMount ==
  /\ dsDash.phase = "none"
  /\ \E ok \in BOOLEAN :
       IF ok
       THEN LET user == MeUser(dsUser)
            IN  dsDash' = [phase |-> "shown",
                           current |-> FieldOrZero(user, "currentStreak"),
                           longest |-> FieldOrZero(user, "longestStreak")]
       ELSE dsDash' = [DashNotMounted EXCEPT !.phase = "failed"]
  /\ UNCHANGED <<dsNow, dsUser, dsResp>>
  /\ UNCHANGED <<pctVars, scoreVars, submitVars, boardVars, examVars, appVars, weakVars, parseVars, saveVars, trendVars, accessVars>>

\* the user leaves the Dashboard
DashLeave ==
  /\ dsDash.phase # "none"
  /\ dsDash' = DashNotMounted
  /\ UNCHANGED <<dsNow, dsUser, dsResp>>
  /\ UNCHANGED <<pctVars, scoreVars, submitVars, boardVars, examVars, appVars, weakVars, parseVars, saveVars, trendVars, accessVars>>

----------------------------------------------------------------------------
(* Specifications *)

DashNext == DsTick \/ DsSubmit \/ DashMount \/ DashLeave
InitDash == PctIdle /\ ScoreIdle /\ SubmitIdle /\ BoardIdle /\ ExamIdle /\ AppIdle /\ WeakIdle /\ ParseIdle /\ SaveIdle /\ TrendIdle /\ AccessIdle /\ DashInit
SpecDash == InitDash /\ [][DashNext]_vars

AccessNext ==
  \/ AcBankSave \/ AcShare \/ AcBankDelete \/ AcSubmit
  \/ AcGetShared \/ AcPostScore \/ AcGetLeaderboard \/ AcProtected
InitAccess ==
  PctIdle /\ ScoreIdle /\ SubmitIdle /\ BoardIdle /\ ExamIdle /\ AppIdle /\ WeakIdle /\ ParseIdle /\ SaveIdle /\ TrendIdle /\ AccessInit /\ DashIdle
SpecAccess == InitAccess /\ [][AccessNext]_vars

TrendNext == TrStoreResult \/ TrLoadDashboard
InitTrend ==
  PctIdle /\ ScoreIdle /\ SubmitIdle /\ BoardIdle /\ ExamIdle /\ AppIdle /\ WeakIdle /\ ParseIdle /\ SaveIdle /\ TrendInit /\ AccessIdle /\ DashIdle
SpecTrend == InitTrend /\ [][TrendNext]_vars

SaveNext ==
  \/ RsMount \/ RsSaveResolved \/ RsSaveRejected \/ RsSetView \/ RsLogout \/ RsLeave
InitSave ==
  PctIdle /\ ScoreIdle /\ SubmitIdle /\ BoardIdle /\ ExamIdle /\ AppIdle /\ WeakIdle /\ ParseIdle /\ SaveInit /\ TrendIdle /\ AccessIdle /\ DashIdle
SpecSave == InitSave /\ [][SaveNext]_vars

ParseNext == PqAddRecord \/ PqParse \/ PqEdit
InitParse ==
  PctIdle /\ ScoreIdle /\ SubmitIdle /\ BoardIdle /\ ExamIdle /\ AppIdle /\ WeakIdle /\ ParseInit /\ SaveIdle /\ TrendIdle /\ AccessIdle /\ DashIdle
SpecParse == InitParse /\ [][ParseNext]_vars

WeakNext == WaStore \/ WaGetWeakAreas
InitWeak == PctIdle /\ ScoreIdle /\ SubmitIdle /\ BoardIdle /\ ExamIdle /\ AppIdle /\ WeakInit /\ ParseIdle /\ SaveIdle /\ TrendIdle /\ AccessIdle /\ DashIdle
SpecWeak == InitWeak /\ [][WeakNext]_vars

AppNext ==
  \/ SuEdit \/ SuPreview \/ SuDeleteQuestion \/ SuStart
  \/ UiAnswer \/ AppSubmit \/ AppQuit
  \/ ErSetView \/ ErEffectAgain \/ ErRetake \/ ErNewExam
  \/ NavClick
  \/ SrvShare \/ ShLoaded \/ ShStart \/ ShSubmit \/ ShQuit \/ ShSubmitScore \/ ShSkip
  \/ ShRetake \/ ShHome
  \/ DrLoaded \/ DrRetry \/ DrGoDashboard \/ DrSubmit \/ DrQuit \/ DrRetake \/ DrNewExam
InitApp == PctIdle /\ ScoreIdle /\ SubmitIdle /\ BoardIdle /\ ExamIdle /\ AppInit /\ WeakIdle /\ ParseIdle /\ SaveIdle /\ TrendIdle /\ AccessIdle /\ DashIdle
SpecApp == InitApp /\ [][AppNext]_vars

ExamNext ==
  \/ EiSelect \/ EiNext \/ EiPrev \/ EiGridJump \/ EiToggleFlag
  \/ EiOpenSubmit \/ EiCancelSubmit \/ EiConfirmSubmit
  \/ EiOpenQuit \/ EiCancelQuit \/ EiConfirmQuit
  \/ EiTick \/ EiHostRender
InitExam == PctIdle /\ ScoreIdle /\ SubmitIdle /\ BoardIdle /\ ExamInit /\ AppIdle /\ WeakIdle /\ ParseIdle /\ SaveIdle /\ TrendIdle /\ AccessIdle /\ DashIdle
SpecExam == InitExam /\ [][ExamNext]_vars

BoardNext == LbPostScore \/ LbGetLeaderboard
InitBoard == PctIdle /\ ScoreIdle /\ SubmitIdle /\ BoardInit /\ ExamIdle /\ AppIdle /\ WeakIdle /\ ParseIdle /\ SaveIdle /\ TrendIdle /\ AccessIdle /\ DashIdle
SpecBoard == InitBoard /\ [][BoardNext]_vars

SubmitNext ==
  \/ SvTick
  \/ \E r \in Reqs : SubmitBegin(r)
  \/ \E r \in Reqs : SubmitLoadUser(r)
  \/ \E r \in Reqs : SubmitSaveUser(r)
Init == PctIdle /\ ScoreIdle /\ SubmitInit /\ BoardIdle /\ ExamIdle /\ AppIdle /\ WeakIdle /\ ParseIdle /\ SaveIdle /\ TrendIdle /\ AccessIdle /\ DashIdle
Spec == Init /\ [][SubmitNext]_vars

PctNext == PctServerStore \/ PctClientRender
InitPct == PctInit /\ ScoreIdle /\ SubmitIdle /\ BoardIdle /\ ExamIdle /\ AppIdle /\ WeakIdle /\ ParseIdle /\ SaveIdle /\ TrendIdle /\ AccessIdle /\ DashIdle
SpecPct == InitPct /\ [][PctNext]_vars

ScoreNext == ScAddQuestion \/ ScRender \/ ScSharedSubmit
InitScore == PctIdle /\ ScoreIdle /\ SubmitIdle /\ BoardIdle /\ ExamIdle /\ AppIdle /\ WeakIdle /\ ParseIdle /\ SaveIdle /\ TrendIdle /\ AccessIdle /\ DashIdle
SpecScore == InitScore /\ [][ScoreNext]_vars

----------------------------------------------------------------------------
(* C5: on the results screen isCorrect holds exactly when the selected and *)
(* the correct answers are equal as sets, and score counts the questions   *)
(* with isCorrect.                                                         *)
C5_SetEqualityScoring ==
  scPhase = "scored" =>
    /\ \A i \in 1..Len(scExam) :
         scResults[i].isCorrect <=>
           (Range(scAnswers[i].selectedAnswers) = Range(scExam[i].correctAnswers))
    /\ scScore = Cardinality({i \in 1..Len(scExam) : scResults[i].isCorrect})

(* C6: the percentage is score/total*100 rounded to 2 decimals (the        *)
(* nearest hundredth), at the server and on the results screen alike.      *)
NearestHundredth(p, score, total) ==
  LET d == p * total - score * 10000
  IN  2 * (IF d < 0 THEN -d ELSE d) <= total

C6_PercentageTwoDecimals ==
  /\ pcServer # Unset => NearestHundredth(pcServer, pcScore, pcTotal)
  /\ pcClient # Unset => NearestHundredth(pcClient, pcScore, pcTotal)

----------------------------------------------------------------------------
(* Claims about POST /submit *)

\* calendar day of an instant
Day(t) == t \div TicksPerDay

(* C1: updateStreak follows the three-way rule.  For the stored values a   *)
(* request loaded and the instant it ran updateStreak: last day absent or  *)
(* before yesterday gives currentStreak 1, last day yesterday gives        *)
(* currentStreak + 1, last day today leaves it; then longestStreak is the  *)
(* max of its old value and the new currentStreak, and lastExamDate = now. *)
C1_StreakRule ==
  \A r \in Reqs :
    svReq[r].pc = "userSaving" =>
      LET old == svReq[r].loaded
          new == svReq[r].doc
          today == Day(svReq[r].nowAt)
          absent == old.lastExamDate = NoDate
      IN  /\ (absent \/ Day(old.lastExamDate) < today - 1) => new.currentStreak = 1
          /\ (~absent /\ Day(old.lastExamDate) = today - 1)
               => new.currentStreak = old.currentStreak + 1
          /\ (~absent /\ Day(old.lastExamDate) = today)
               => new.currentStreak = old.currentStreak
          /\ new.longestStreak = Max(old.longestStreak, new.currentStreak)
          /\ new.lastExamDate = svReq[r].nowAt

\* a submission on the third consecutive day continues a streak of 2
C1_Witness ==
  \E r \in Reqs :
    /\ svReq[r].pc = "userSaving"
    /\ svReq[r].loaded.lastExamDate # NoDate
    /\ Day(svReq[r].loaded.lastExamDate) = Day(svReq[r].nowAt) - 1
    /\ svReq[r].loaded.currentStreak = 2
    /\ svReq[r].doc.currentStreak = 3

ResultStored(r) == \E i \in 1..Len(svResults) : svResults[i].sid = r
HistoryStored(r) == \E i \in 1..Len(svHistory) : svHistory[i].sid = r

(* C2: once a POST /submit has been answered, its ExamResult is stored if  *)
(* and only if its history entry and streak update are stored.             *)
C2_ResultAndStreakTogether ==
  \A r \in Reqs : svReq[r].pc = "done" => (ResultStored(r) <=> HistoryStored(r))

(* C3: when two POST /submit requests of the same attempt have both been   *)
(* processed, the attempt is in the history once, and (no other request    *)
(* having run) the streak counters are those of one submission by the new  *)
(* user: 1 and 1.                                                          *)
C3_DuplicateSubmitOnce ==
  \A r1, r2 \in Reqs :
    (/\ r1 < r2
     /\ svReq[r1].pc = "done" /\ svReq[r1].status = 201
     /\ svReq[r2].pc = "done" /\ svReq[r2].status = 201
     /\ svReq[r1].att = svReq[r2].att)
    => /\ Cardinality({i \in 1..Len(svHistory) : svHistory[i].att = svReq[r1].att}) = 1
       /\ (\A q \in Reqs \ {r1, r2} : svReq[q].pc = "idle")
            => (svUser.currentStreak = 1 /\ svUser.longestStreak = 1)

----------------------------------------------------------------------------
(* Claims about the leaderboard *)

\* a ranks strictly before b: higher percentage, or equal and faster
RanksBefore(a, b) ==
  \/ a.percentage > b.percentage
  \/ a.percentage = b.percentage /\ a.timeTaken < b.timeTaken

Occurrences(arr, e) == Cardinality({i \in 1..Len(arr) : arr[i] = e})

PctTime(arr) == [i \in 1..Len(arr) |-> <<arr[i].percentage, arr[i].timeTaken>>]

----------------------------------------------------------------------------
(* Claims about the exam interface *)

(* C8: an attempt with a time limit expires once timeLimitSeconds have     *)
(* elapsed since its start, whatever the user does meanwhile: it is not    *)
(* active any more at that instant, and a submission by the countdown      *)
(* happens at exactly that instant.                                        *)
C8_ExpiryNotPostponed ==
  eiTimeLimit > 0 =>
    /\ eiPhase = "active" => eiNow < eiTimeLimit * TicksPerSec
    /\ eiBy = "timer" => eiOutAt = eiTimeLimit * TicksPerSec

----------------------------------------------------------------------------
(* Claims about the client application *)

SignedInSubmitted(a) ==
  apAuth /\ attempts[a].status = "submitted" /\ attempts[a].host \in {"main", "drill"}

(* C4: for a signed-in user every submitted attempt has made the client    *)
(* issue exactly one POST /exams/submit, whatever UI events followed while *)
(* its results stayed current.                                             *)
C4_OneSubmitPerAttempt ==
  \A a \in DOMAIN attempts : SignedInSubmitted(a) => attempts[a].posts = 1

(* C7: an exam without questions is never started: no host of attempts is  *)
(* in its taking phase with an empty exam, and the page survives the try   *)
(* to start one.                                                           *)
C7_EmptyExamNeverStarted ==
  /\ ~apCrashed
  /\ app.appState = "taking" => app.currentExam > 0
  /\ shPhase = "taking" => shExam > 0
  /\ drPhase = "drill" => drExam > 0

(* C9: an attempt that was quit is abandoned for good: no score is computed *)
(* from it, no POST /exams/submit and no leaderboard score is issued for   *)
(* it, and no host or later interface holds its answers.                   *)
C9_QuitDiscards ==
  \A a \in DOMAIN attempts :
    attempts[a].status = "abandoned" =>
      /\ ~attempts[a].scored
      /\ attempts[a].posts = 0
      /\ attempts[a].lbPosts = 0
      /\ app.userAnswers # a
      /\ drAnswers # a
      /\ shScore # a
      /\ uiAnswers # a

\* answered attempts were quit in the main flow, the shared exam and the
\* drill, and the last of them was followed by nothing else
C9_Witness ==
  /\ \A host \in {"main", "shared", "drill"} :
       \E a \in DOMAIN attempts :
         /\ attempts[a].host = host
         /\ attempts[a].status = "abandoned"
         /\ attempts[a].answered
  /\ \E a, b \in DOMAIN attempts :
       /\ a < b
       /\ attempts[a].status = "abandoned"
       /\ attempts[a].answered
       /\ attempts[b].answered

----------------------------------------------------------------------------
(* Claims about score submissions and the stored leaderboard *)

PostAnswered == lbReq'.method = "POST"
InvalidScoreRequest == lbReq'.nickname = 0 \/ lbReq'.score = NoNumber
OneEntryAppended == Len(lbStore') = Len(lbStore) + 1 /\ SubSeq(lbStore', 1, Len(lbStore)) = lbStore

C12_StorageKeepsAll ==
  /\ lbStore \in {lbLog, LbSeed \o lbLog}
  /\ Len(lbResp) <= LeaderboardCap

\* a read of a board of more than 20 entries, which the ranking orders
\* differently from storage
C12_Witness ==
  /\ lbReq.method = "GET"
  /\ lbStatus = 200
  /\ Len(lbStore) > LeaderboardCap
  /\ Len(lbResp) = LeaderboardCap
  /\ lbLog # <<>>
  /\ SubSeq(lbStore, 1, LeaderboardCap) # lbResp

----------------------------------------------------------------------------
(* Claims about the weak-area analysis, stated over the answers the last   *)
(* successful analysis read (waSeen) and its response (waResp)             *)

SeenAt(id) == {i \in 1..Len(waSeen) : waSeen[i].questionId = id}
SeenIds == {waSeen[i].questionId : i \in 1..Len(waSeen)}
AttemptsOf(id) == Cardinality(SeenAt(id))
WrongOf(id) == Cardinality({i \in SeenAt(id) : ~waSeen[i].isCorrect})
FirstSeenAt(id) == CHOOSE i \in SeenAt(id) : \A j \in SeenAt(id) : i <= j
LastSeenAt(id) == CHOOSE i \in SeenAt(id) : \A j \in SeenAt(id) : j <= i
\* attempts >= 2 and wrongCount/attempts > 0.4
Qualifies(id) == AttemptsOf(id) >= 2 /\ WrongOf(id) * 10 > AttemptsOf(id) * 4
Listed == {waResp[i].questionId : i \in 1..Len(waResp)}
Analysed == waStatus = 200

(* C13: a question is emitted if and only if it has at least 2 attempts    *)
(* and wrongCount/attempts > 0.4 over the stored results (as far as the    *)
(* cap of 30 leaves room), and its userAccuracy is 1 - wrongCount/attempts *)
(* rounded to 2 decimals.                                                  *)
C13_WeakIffThreshold ==
  Analysed =>
    /\ \A i \in 1..Len(waResp) :
         LET id == waResp[i].questionId
         IN  /\ Qualifies(id)
             /\ waResp[i].userAccuracy
                  \in NearestMultiples(AttemptsOf(id) - WrongOf(id), AttemptsOf(id), 100)
    /\ Cardinality({id \in SeenIds : Qualifies(id)}) <= 30
         => \A id \in SeenIds : Qualifies(id) => id \in Listed

(* C14: the output is sorted by userAccuracy ascending, entries of equal   *)
(* userAccuracy stand in the order in which their ids were first           *)
(* encountered, whatever the form of the id, and the output is the first   *)
(* 30 entries of that order.                                               *)
C14_SortedStableCapped ==
  Analysed =>
    /\ Len(waResp) <= 30
    /\ \A i, j \in 1..Len(waResp) :
         i < j =>
           \/ waResp[i].userAccuracy < waResp[j].userAccuracy
           \/ /\ waResp[i].userAccuracy = waResp[j].userAccuracy
              /\ FirstSeenAt(waResp[i].questionId) < FirstSeenAt(waResp[j].questionId)
    /\ \A id \in SeenIds \ Listed :
         Qualifies(id) /\ id.form # "proto" =>
           /\ Len(waResp) = 30
           /\ \A acc \in NearestMultiples(AttemptsOf(id) - WrongOf(id), AttemptsOf(id), 100) :
                \/ waResp[30].userAccuracy < acc
                \/ /\ waResp[30].userAccuracy = acc
                   /\ FirstSeenAt(waResp[30].questionId) < FirstSeenAt(id)

(* C15: an entry carries the metadata of the most recently seen occurrence *)
(* of its questionId, and its attempts count all occurrences.              *)
C15_LastMetadataWins ==
  Analysed =>
    \A i \in 1..Len(waResp) :
      LET id == waResp[i].questionId
      IN  /\ waResp[i].meta = waSeen[LastSeenAt(id)].meta
          /\ waResp[i].timesAttempted = AttemptsOf(id)

----------------------------------------------------------------------------
(* Claims about parseQuestions, stated over the parsed batch (pqBatch) and *)
(* the outcome (pqOut)                                                     *)

Parsed == pqOut.status # "none"
\* the answer set a record's fields resolve to
FromCorrectAnswers(q) == IF q.correctAnswers.kind = "array" THEN Range(q.correctAnswers.items) ELSE {}
FromCorrectAnswer(q) == IF q.correctAnswer \in {NoAnswer, EmptyText} THEN {} ELSE {q.correctAnswer}
HasAnswers(q) == FromCorrectAnswers(q) # {} \/ FromCorrectAnswer(q) # {}
\* a record that is sound apart from its answer fields
SoundQuestion(q) == q.question # EmptyText /\ q.options.kind = "array"

(* C16: a batch of records with sound question and options is accepted     *)
(* whenever each record has a non-empty answer set in correctAnswer or in  *)
(* correctAnswers, and fails only when some record has neither; a record   *)
(* with correctAnswers = [] and a correctAnswer is accepted with that      *)
(* single answer.                                                          *)
C16_EitherAnswerField ==
  (Parsed /\ \A i \in 1..Len(pqBatch) : SoundQuestion(pqBatch[i])) =>
    /\ pqOut.status = "returned" <=> \A i \in 1..Len(pqBatch) : HasAnswers(pqBatch[i])
    /\ pqOut.status = "returned" =>
         \A i \in 1..Len(pqBatch) :
           FromCorrectAnswers(pqBatch[i]) = {} =>
             pqOut.questions[i].correctAnswers = <<pqBatch[i].correctAnswer>>

(* C17: every returned Question has a non-empty question text, non-empty   *)
(* options and a non-empty correctAnswers that is a subset of its options; *)
(* a record violating any of these makes the whole batch fail.             *)
C17_ReturnedWellFormed ==
  pqOut.status = "returned" =>
    \A i \in 1..Len(pqOut.questions) :
      LET q == pqOut.questions[i]
      IN  /\ q.question # EmptyText
          /\ q.options # <<>>
          /\ q.correctAnswers # <<>>
          /\ Range(q.correctAnswers) \subseteq Range(q.options)

----------------------------------------------------------------------------
(* C18: when the save of a submitted attempt fails, the results screen     *)
(* still shows the score and the per-question review computed in memory,   *)
(* the screen is in a non-fatal save-failed state (not saving, not saved,  *)
(* the error text set, the views still usable), and no second POST /submit *)
(* is issued; the score and the isCorrect values on the screen are those   *)
(* computed from the exam and the answers whether the save is pending, has *)
(* succeeded or has failed.                                                *)

InMemoryResults == Results(rsProps.exam, rsProps.userAnswers)

ScoreAndReviewShown ==
  /\ rsShown.score = ResultsScore(InMemoryResults)
  /\ Len(rsShown.isCorrect) = Len(rsProps.exam)
  /\ \A i \in 1..Len(rsProps.exam) : rsShown.isCorrect[i] = InMemoryResults[i].isCorrect

SaveFailedState ==
  /\ ~rsState.saving
  /\ ~rsState.saved
  /\ rsState.saveError = "Could not save"
  /\ rsAuth => rsShown.badge = "Could not save"
  /\ rsShown.view = rsState.view

----------------------------------------------------------------------------
(* C19: for a history delivered newest first, the trend series of the      *)
(* dashboard is the min(10, n) most recent results in chronological order, *)
(* oldest of the window first and newest last; with fewer than 10 results  *)
(* it holds all of them.                                                   *)

C19_TrendMostRecentTen ==
  /\ Len(trChart) = IF Len(trHistory) < 10 THEN Len(trHistory) ELSE 10
  /\ \A i \in 1..Len(trChart) : trChart[i] = trHistory[Len(trChart) + 1 - i]
  /\ \A i \in 1..(Len(trChart) - 1) : trChart[i].createdAt < trChart[i + 1].createdAt

\* twelve results, newest first in history: the series is results 3 to 12
C19_Witness ==
  /\ Len(trHistory) = 12
  /\ trHistory[1].createdAt = 12
  /\ Len(trChart) = 10
  /\ trChart[1].createdAt = 3
  /\ trChart[10].createdAt = 12
  /\ trChart[1].percentage # trChart[10].percentage

----------------------------------------------------------------------------
(* C20: a request without a token reads only SavedExam documents that are  *)
(* public and carry the share id of the request; the only thing it changes *)
(* is the leaderboard of that document; no ExamResult and no profile is    *)
(* changed or returned, and the response carries fields of the matching    *)
(* public document only, never its userId.                                 *)

UnauthenticatedRequest == acLast'.n = acLast.n + 1 /\ ~acLast'.auth

OwnPublicExams == {i \in 1..Len(acExams) : acExams[i].isPublic /\ acExams[i].shareId = acLast.shareId}

ReturnsOnlyPublicFlow ==
  /\ acLast.read \subseteq 1..Len(acExams)
  /\ DOMAIN acLast.body \subseteq {"exam", "leaderboard", "title", "error"}
  /\ acLast.read = {} => DOMAIN acLast.body \subseteq {"error"}
  /\ \A i \in acLast.read :
       /\ "exam" \in DOMAIN acLast.body =>
            /\ "userId" \notin DOMAIN acLast.body.exam
            /\ \A f \in DOMAIN acLast.body.exam : acLast.body.exam[f] = acExams[i][f]
       /\ "title" \in DOMAIN acLast.body => acLast.body.title = acExams[i].title
       /\ "leaderboard" \in DOMAIN acLast.body =>
            \A k \in 1..Len(acLast.body.leaderboard) :
              \E j \in 1..Len(acExams[i].leaderboard) :
                acLast.body.leaderboard[k] = acExams[i].leaderboard[j]

C20_ShareIdGrantsOnlyItsFlow ==
  [][UnauthenticatedRequest =>
       /\ acLast'.read \subseteq OwnPublicExams'
       /\ Cardinality(acLast'.read) <= 1
       /\ acResults' = acResults
       /\ acProfiles' = acProfiles
       /\ Len(acExams') = Len(acExams)
       /\ \A i \in 1..Len(acExams) :
            \/ acExams'[i] = acExams[i]
            \/ /\ i \in acLast'.read
               /\ [acExams'[i] EXCEPT !.leaderboard = acExams[i].leaderboard] = acExams[i]
       /\ ReturnsOnlyPublicFlow']_vars

\* u1 has a private bank exam, a shared exam and a stored result; the shared
\* exam was fetched without a token after a score had been posted to it
C20_Witness ==
  /\ ~acLast.auth
  /\ acLast.route = "GET /shared/:shareId"
  /\ acLast.status = 200
  /\ Len(acResults) = 1
  /\ acProfiles["u1"] = 1
  /\ \E i, j \in 1..Len(acExams) :
       /\ acExams[i].userId = "u1" /\ ~acExams[i].isPublic
       /\ acExams[j].userId = "u1" /\ acExams[j].isPublic
       /\ acLast.read = {j}
       /\ Len(acExams[j].leaderboard) >= 1

----------------------------------------------------------------------------
(* C21: on submit, by the confirmation or by the countdown, the time of    *)
(* the question in progress is flushed first: its timeSpent in the answers *)
(* handed to onSubmit is the time accumulated for it before plus the whole *)
(* seconds since it last became active.                                    *)

SubmitStep == eiPhase = "active" /\ eiPhase' = "submitted"

C21_SubmitFlushesActive ==
  [][SubmitStep =>
       eiOut'[eiIndex + 1].timeSpent =
         eiTimes[eiIndex + 1] + SecondsSince(eiOutAt', eiQStart)]_vars

----------------------------------------------------------------------------
(* C22: submitted and abandoned are absorbing: once onSubmit or onQuit has *)
(* been called for an attempt, no later event changes its phase or the     *)
(* answers handed over, the host that received the answers keeps them, and *)
(* onSubmit is called at most once for the attempt, also when a click on a *)
(* confirmation and the expiry of the countdown coincide.                  *)

C22_TerminalAbsorbing ==
  [][/\ eiPhase = "submitted" => eiPhase' = "submitted" /\ eiOut' = eiOut
     /\ eiPhase = "abandoned" => eiPhase' = "abandoned" /\ eiOut' = eiOut
     /\ eiCalls' <= 1
     /\ (eiPhase = "submitted" /\ eiHost'.appState # "taking") =>
          eiHost'.appState = "results"]_vars

----------------------------------------------------------------------------
(* C23: in every state of an attempt on an exam of one or more questions   *)
(* the index of the current question is between 0 and total - 1: next on   *)
(* the last question and previous on the first leave it where it is, and a *)
(* grid jump goes to an existing question.                                 *)

C23_IndexInRange ==
  /\ EiTotal >= 1
  /\ eiIndex >= 0
  /\ eiIndex <= EiTotal - 1

\* the last question is shown, reached after a second on an earlier one
C23_Witness ==
  /\ eiPhase = "active"
  /\ eiIndex = EiTotal - 1
  /\ eiIndex > 0
  /\ eiTimes[1] > 0

----------------------------------------------------------------------------
(* C24: when the submissions that were answered 201 are all there is (no   *)
(* request is in flight), the stored currentStreak is the number of        *)
(* consecutive calendar days, ending on the day of the latest of these     *)
(* submissions, on each of which at least one of them was made.            *)

SubmissionDays == {Day(svHistory[i].at) : i \in 1..Len(svHistory)}

LatestDay == CHOOSE d \in SubmissionDays : \A e \in SubmissionDays : e <= d

\* length of the run of days with a submission that ends on LatestDay
ConsecutiveDays ==
  Cardinality({d \in SubmissionDays : \A e \in d..LatestDay : e \in SubmissionDays})

NoneInFlight == \A r \in Reqs : svReq[r].pc \in {"idle", "done"}

C24_StreakIsConsecutiveDays ==
  (NoneInFlight /\ svHistory # <<>>) => svUser.currentStreak = ConsecutiveDays

----------------------------------------------------------------------------
(* C25: every entry of the stored leaderboard has a nickname of between 1  *)
(* and 30 characters, whatever client sent the score submission.           *)

C25_NicknameLength ==
  \A i \in 1..Len(lbStore) : lbStore[i].nickname \in 1..MaxNickname

----------------------------------------------------------------------------
(* C26: the ids of the questions parseQuestions returns are pairwise       *)
(* distinct for every accepted batch, records with and without a supplied  *)
(* id mixed, so that selecting an answer for one question of the exam      *)
(* never changes the answer held for another.                              *)

\* m.set(question.id, selected) on the answers map of ExamInterface
handleAnswerChange(answers, question, selected) ==
  [id \in DOMAIN answers \cup {question.id} |->
     IF id = question.id THEN selected ELSE answers[id]]

\* answers.get(q.id) || []
AnswerGet(answers, q) == IF q.id \in DOMAIN answers THEN answers[q.id] ELSE <<>>

C26_IdsDistinct ==
  pqOut.status = "returned" =>
    \A i, j \in 1..Len(pqOut.questions) :
      i # j =>
        /\ pqOut.questions[i].id # pqOut.questions[j].id
        /\ LET empty == [id \in {} |-> <<>>]
               after == handleAnswerChange(empty, pqOut.questions[i], <<1>>)
           IN  AnswerGet(after, pqOut.questions[j]) = AnswerGet(empty, pqOut.questions[j])

----------------------------------------------------------------------------
(* C27: every question of the drill exam built from a weak-areas response  *)
(* has an options list that contains all of its correctAnswers, so that a  *)
(* selection scored correct can be made in the exam interface.             *)

\* drillExam.questions of WeakAreaDrill: questions.map(q => ({id, question,
\* options, correctAnswers, type, topic}))
DrillQuestions(weakAreas) ==
  [i \in 1..Len(weakAreas) |->
     [id |-> weakAreas[i].questionId,
      options |-> weakAreas[i].options,
      correctAnswers |-> MetaCorrectAnswers(weakAreas[i].meta),
      type |-> IF Len(MetaCorrectAnswers(weakAreas[i].meta)) > 1 THEN "multi" ELSE "single"]]

\* selections the interface can reach on a question: its buttons and digit
\* keys are the entries of question.options, one of them at a time for a
\* single-answer question
Selectable(q) ==
  {s \in SeqsUpTo(Range(q.options), Len(q.options)) :
     NoDup(s) /\ (q.type = "single" => Len(s) <= 1)}

C27_DrillAnswerable ==
  waStatus = 200 =>
    \A i \in 1..Len(waResp) :
      LET q == DrillQuestions(waResp)[i]
      IN  /\ Range(q.correctAnswers) \subseteq Range(q.options)
          /\ \E s \in Selectable(q) : IsCorrect(s, q.correctAnswers)

----------------------------------------------------------------------------
(* C28: for every answer set the exam interface hands over, the score      *)
(* SharedExam.handleExamSubmit computes equals the score of the results    *)
(* screen, also when a question's correctAnswers repeat an entry.          *)
C28_SharedScoreAgrees ==
  (scPhase = "scored" /\ scShared # Unset) => scShared = scScore

\* both scores computed for an exam with a repeated correct answer and a
\* question scored correct
C28_Witness ==
  /\ scPhase = "scored"
  /\ scShared # Unset
  /\ scShared >= 1
  /\ \E i \in 1..Len(scExam) : ~NoDup(scExam[i].correctAnswers)

----------------------------------------------------------------------------
(* C29: a completed shared-exam attempt adds at most one entry to the      *)
(* leaderboard, also when its score POST succeeds, the leaderboard GET     *)
(* that follows fails and the user submits the nickname form again.        *)
C29_OneEntryPerAttempt ==
  \A a \in DOMAIN attempts : attempts[a].lbPosts <= 1

----------------------------------------------------------------------------
(* C30: the current and longest streak the dashboard shows after loading   *)
(* the user with GET /auth/me are the currentStreak and longestStreak      *)
(* stored for the user by the latest POST /submit.                         *)
DashLoaded == dsDash.phase = "none" /\ dsDash'.phase = "shown"

C30_DashboardShowsStored ==
  [][DashLoaded => /\ dsDash'.current = dsUser.currentStreak
                   /\ dsDash'.longest = dsUser.longestStreak]_vars

====
